---- MODULE Spec2Model ----
(***************************************************************************)
(* Rex voice assistant: the conversation state machine with its listener   *)
(* and reminder scheduler (SpecFSM), the timer manager (SpecTimer) and the *)
(* single-stream audio output mixer (SpecMixer).                           *)
(***************************************************************************)
EXTENDS Integers, Sequences, FiniteSets, TLC

(***************************************************************************)
(* Bounds of the model                                                     *)
(***************************************************************************)
MaxTime == 2          \* the wall clock runs 0..MaxTime
MaxSnooze == 2        \* snooze durations parsed from speech: 1..MaxSnooze
RetryTicks == 1       \* the configured retry interval, in clock ticks
MaxStops == 1         \* calls of StateMachine.stop() from another thread
MaxSets == 3          \* calls of TimerManager.set_timer
Frames == 2           \* samples per output callback buffer
MaxClipLen == 3       \* samples in a one-shot clip: 1..MaxClipLen
LoopLen == 2          \* samples in the loop buffer
MaxClips == 2         \* clips handed to queue_audio
MaxBlockingCalls == 1 \* calls of queue_audio_blocking
MaxCalls == 2            \* calls of the listener and starts of the monitor
MaxReads == 6            \* frames the microphone delivers
CHUNK == 5               \* samples in a frame (chunk_size, in units of 256)
VAD_CHUNK == 2           \* samples in a voice-activity window (in units of 256)
BufferSamples == 7       \* capacity of the ring buffer
RecentSamples == 3       \* what listen_for_speech keeps of the ring buffer
SilenceFrames == 1       \* silence_duration, in frames
TimeoutFrames == 1       \* timeout of listen_for_speech, in frames
MAX_HISTORY_MESSAGES == 4 \* the cap on the history (20 in agent.py), scaled
MaxMessages == 9         \* messages made in one conversation
MaxReminders == 2        \* reminders ever created
MaxDepth == 2            \* mute() calls counted as not yet matched by an unmute()
MaxUnmuteLoops == 1      \* alarm threads started by unmute() alive at a time
MaxSamples == 7          \* samples handed to VADProcessor.add_audio in all
MaxChunkLen == 4         \* samples in one add_audio chunk
MaxChunks == 3           \* arrays in the VADProcessor buffer

(***************************************************************************)
(* ConversationState (core/state_machine.py)                               *)
(***************************************************************************)
WAITING_FOR_WAKE_WORD == "WAITING_FOR_WAKE_WORD"
LISTENING == "LISTENING"
PROCESSING == "PROCESSING"
SPEAKING == "SPEAKING"
AWAITING_CONFIRMATION == "AWAITING_CONFIRMATION"
DELIVERING_REMINDER == "DELIVERING_REMINDER"
SHUTTING_DOWN == "SHUTTING_DOWN"

ConversationState ==
  {WAITING_FOR_WAKE_WORD, LISTENING, PROCESSING, SPEAKING,
   AWAITING_CONFIRMATION, DELIVERING_REMINDER, SHUTTING_DOWN}

None == "None"
NoDelivery == 0        \* no ReminderDelivery

\* StateResult and the payload dictionaries the handlers build
NoData == [kind |-> "none"]
ListenData(a, t) == [kind |-> "listen", audio |-> a, is_wake_word_trigger |-> t]
TranscriptionData(t) == [kind |-> "transcription", transcription |-> t]
ResponseData(r, f) == [kind |-> "response", response |-> r, force_end_conversation |-> f]

\* the PendingConfirmation of the conversation: none handed over, handed to
\* AwaitingConfirmationHandler.enter, resolved by confirm_tool_call
NoConfirmation == [state |-> "none", confirmed |-> FALSE, said |-> <<>>]
Handed == [state |-> "handed", confirmed |-> FALSE, said |-> <<>>]
Resolved(confirmed, said) == [state |-> "resolved", confirmed |-> confirmed, said |-> said]

ResponseOnlyData(r) == [kind |-> "response", response |-> r]
PendingData(p) == [kind |-> "pending", pending |-> p]
DeliveryData(d) == [kind |-> "delivery", delivery |-> d]
StateResult(next, data) == [next_state |-> next, data |-> data]
NoResult == [next_state |-> None, data |-> NoData]
NoOp ==
  [op |-> None, minutes |-> 0, spoken |-> FALSE,
   response |-> [heard |-> "none", snooze |-> <<>>, confirm |-> FALSE, reject |-> FALSE]]

\* dict.get(field, default); a None payload is falsy and takes the else branch
Get(data, field, default) == IF field \in DOMAIN data THEN data[field] ELSE default
Truthy(data) == data # NoData

\* Values of the external collaborators, by the classes the code tests
Audios == {"empty", "a1", "a2"}                  \* captured PCM arrays
Transcriptions == {"", "stop", "Stop the timer ", "cancel", "hello"} \* transcriber output
Replies == {"", "stmt", "question?"}              \* backend reply text
ExcKinds == {"Exception", "KeyboardInterrupt"}
Reminders == {1, 2}

VARIABLES
  \* StateMachine
  current_state, running, transition_data, pc, handler, result, exc, stops, stop_pc,
  \* handler fields and the position inside process()
  hpc, l_audio, l_trig, p_transcription, s_response, s_force, c_pending,
  d_delivery, w_audio, d_op,
  \* AppContext
  conversation_history, thread_id, tm_muted,
  \* WakeWordListener
  interrupted,
  \* ReminderScheduler and the reminder store
  spc, pending_delivery, reminders, now, s_due, wake_event,
  \* history of the current handler visit
  listened, transcribed, wake_seen, from_interrupt, heard_text,
  \* history of the PendingConfirmation handed to AwaitingConfirmationHandler:
  \* whether confirm_tool_call has been called for it, with what
  confirmation,
  \* TimerManager
  timers, threads, thread_name, current_ringing, sound_thread, sound_loops,
  stop_sound,
  \* history of the timers: the last API call and its result, and what
  \* happened to each Timer object
  tm_last, tm_log,
  \* the timers that became RINGING while the manager was muted
  rang_muted,
  \* AudioManager
  muted, output_queue, current_output, output_position, loop_audio, stop_requested,
  completion_event,
  \* the output callback, mute() and queue_audio_blocking() in progress
  cb_pc, output_pos, mute_pc, bpc, b_clip, b_calls,
  \* history of the mixer
  \* silenced: mute() has returned and a callback has begun since
  clips_made, emitted, queued, played, disturbed, silenced,
  \* muted_context() in progress, the last of mute() and unmute() to have
  \* taken self._lock, and the mute() calls not yet matched by an unmute()
  ctx_pc, mute_last, mute_depth,
  \* the clips made when the pending stop request was made
  stop_mark,
  \* the capture loops of WakeWordListener and WakeWordMonitor: the call in
  \* progress and its position, the input stream, the buffers, the clock
  lpc, call, stream, ring_buffer, audio_chunks, vad_buffer, speech_detected,
  last_speech_time, start_time, cap_time, mic, calls, ret, stop_event,
  \* history of the capture: the ring buffer at the trigger, the first sample
  \* of the call, when a window of the capture was first (first_speech_at) and
  \* last (speech_at) speech, when one of the call was (heard_at), and whether
  \* a silence longer than
  \* silence_duration has passed after it without a return
  trigger_ring, first_sample, speech_at, first_speech_at, heard_at, overdue,
  \* speak_interruptibly, the caller of the monitor: where it is
  spk_pc

VARIABLES
  \* the message list behind ctx.conversation_history: whether the context
  \* holds one, its messages, the handler that updates it next and the number
  \* of messages made in the conversation
  ch_held, ch_messages, ch_pc, ch_count,
  \* ReminderManager: the rows of the reminders table, the next id, whether a
  \* call holds the lock forever, and the last call with the number of
  \* ReminderScheduleChanged events it emitted
  rm_rows, rm_next, rm_hung, rm_last,
  \* VADProcessor: _buffer, a list of arrays of samples; the samples added
  \* so far; every probability process has returned; the last call and
  \* what it returned
  vp_buffer, vp_added, vp_scored, vp_last, vp_ret

smVars == <<current_state, running, transition_data, pc, handler, result, exc, stops, stop_pc>>
hVars == <<hpc, l_audio, l_trig, p_transcription, s_response, s_force, c_pending,
           d_delivery, w_audio, d_op>>
ctxVars == <<conversation_history, thread_id, tm_muted>>
lsnVars == <<interrupted>>
schVars == <<spc, pending_delivery, reminders, now, s_due, wake_event>>
visitVars == <<listened, transcribed, wake_seen, from_interrupt, heard_text>>
tmVars == <<timers, threads, thread_name, current_ringing, sound_thread, sound_loops,
            stop_sound, tm_last, tm_log, rang_muted>>
fsmVars == <<smVars, hVars, ctxVars, lsnVars, schVars, visitVars, confirmation>>
mixVars == <<muted, output_queue, current_output, output_position, loop_audio,
             stop_requested, completion_event, cb_pc, output_pos, mute_pc, bpc,
             b_clip, b_calls, clips_made, emitted, queued, played, disturbed,
             silenced, ctx_pc, mute_last, mute_depth, stop_mark>>
capVars == <<lpc, call, stream, ring_buffer, audio_chunks, vad_buffer, speech_detected,
             last_speech_time, start_time, cap_time, mic, calls, ret, stop_event,
             trigger_ring, first_sample, speech_at, first_speech_at, heard_at, overdue,
             spk_pc>>
devVars == <<tmVars, mixVars, capVars>>
chVars == <<ch_held, ch_messages, ch_pc, ch_count>>
rmVars == <<rm_rows, rm_next, rm_hung, rm_last>>
vadVars == <<vp_buffer, vp_added, vp_scored, vp_last, vp_ret>>
libVars == <<chVars, rmVars, vadVars>>
allVars == <<fsmVars, tmVars, mixVars, capVars, libVars>>

(***************************************************************************)
(* StateMachine.__init__ and the construction of its collaborators         *)
(***************************************************************************)
InitMachine ==
  /\ confirmation = NoConfirmation
  /\ current_state = WAITING_FOR_WAKE_WORD
  /\ running = FALSE
  /\ transition_data = NoData
  /\ pc = "start" /\ handler = None /\ result = NoResult /\ exc = None
  /\ stops = 0 /\ stop_pc = "idle"
  /\ hpc = "begin"
  /\ l_audio = None /\ l_trig = FALSE
  /\ p_transcription = "" /\ s_response = "" /\ s_force = FALSE
  /\ c_pending = None /\ d_delivery = NoDelivery /\ w_audio = None
  /\ d_op = NoOp
  /\ conversation_history = None /\ thread_id = None /\ tm_muted = FALSE
  /\ interrupted = FALSE
  /\ spc = "startup" /\ pending_delivery = NoDelivery /\ s_due = NoDelivery
  /\ wake_event = FALSE
  /\ listened = FALSE /\ transcribed = None /\ wake_seen = FALSE
  /\ from_interrupt = None /\ heard_text = <<>>

(***************************************************************************)
(* TimerManager (agent/tools/timer.py)                                     *)
(***************************************************************************)
Names == {"egg", "tea"}
Durations == {1, 2}
NoThread == 0
ThreadIds == 1..MaxSets
NoTimer == [state |-> "absent", duration |-> 0, thread |-> NoThread]

InitTimerManager ==
  /\ timers = [n \in Names |-> NoTimer]
  /\ threads = [t \in ThreadIds |-> "unused"]
  /\ thread_name = [t \in ThreadIds |-> None]
  /\ current_ringing = None
  /\ sound_thread = NoThread
  /\ sound_loops = {}
  /\ stop_sound = FALSE
  /\ tm_last = [op |-> None, arg |-> None, result |-> None]
  /\ tm_log = [t \in ThreadIds |-> <<>>]
  /\ rang_muted = {}

\* threading.Timer.cancel: no effect once the countdown has run out
Cancel(ths, t) ==
  IF t # NoThread /\ ths[t] = "waiting" THEN [ths EXCEPT ![t] = "cancelled"] ELSE ths

\* _stop_alarm: set the stop event, join the alarm thread, forget it
LoopsAfterStopAlarm == sound_loops \ {sound_thread}

\* variant: the callback does not test for PENDING
CallbackFires_AnyState(t) == timers[thread_name[t]].state # "absent"

\* _timer_callback, the test under the lock: which timer the expiry of
\* thread t may turn RINGING
CallbackFires(t) ==
  /\ timers[thread_name[t]].state # "absent"
  /\ timers[thread_name[t]].state = "PENDING"

\* what the last call of the timer API returned
NoCall == [op |-> None, arg |-> None, result |-> None]
Call(op, arg, res) == [op |-> op, arg |-> arg, result |-> res]

\* the history of a Timer object, told apart by its own countdown thread
Logged(log, i, e) == [log EXCEPT ![i] = Append(@, e)]
\* the Timer object the callback of thread t marked RINGING
MarkedBy(log, t) ==
  CHOOSE i \in ThreadIds : \E k \in 1..Len(log[i]) : log[i][k] = <<"RINGING", t>>

\* set_timer, the whole body under _timers_lock
SetTimer ==
  \E n \in Names, d \in Durations :
    LET t == CHOOSE u \in ThreadIds : threads[u] = "unused" /\
                 \A v \in ThreadIds : threads[v] = "unused" => u <= v
        old == timers[n]
        ringing == old.state = "RINGING"
    IN /\ \E u \in ThreadIds : threads[u] = "unused"
       /\ threads' = [Cancel(threads, old.thread) EXCEPT ![t] = "waiting"]
       /\ thread_name' = [thread_name EXCEPT ![t] = n]
       /\ timers' = [timers EXCEPT ![n] =
                       [state |-> "PENDING", duration |-> d, thread |-> t]]
       /\ IF ringing
          THEN /\ stop_sound' = TRUE
               /\ sound_loops' = LoopsAfterStopAlarm
               /\ sound_thread' = NoThread
          ELSE UNCHANGED <<stop_sound, sound_loops, sound_thread>>
       /\ tm_last' = Call("set_timer", n, "set")
       /\ rang_muted' = rang_muted \ {n}
       /\ UNCHANGED <<current_ringing, tm_log>>
       /\ UNCHANGED <<fsmVars, mixVars, capVars>>
       /\ UNCHANGED libVars

\* threading.Timer: the countdown runs out and the thread goes on to call
\* the callback
TimerExpire ==
  \E t \in ThreadIds :
    /\ threads[t] = "waiting"
    /\ threads' = [threads EXCEPT ![t] = "fired"]
    /\ tm_last' = NoCall
    /\ UNCHANGED <<timers, thread_name, current_ringing, sound_thread, sound_loops,
                   stop_sound, tm_log>>
    /\ UNCHANGED rang_muted
    /\ UNCHANGED <<fsmVars, mixVars, capVars>>
    /\ UNCHANGED libVars

\* _timer_callback, the part under _timers_lock
TimerCallbackLocked ==
  \E t \in ThreadIds :
    /\ threads[t] = "fired"
    /\ IF CallbackFires(t)
       THEN /\ timers' = [timers EXCEPT ![thread_name[t]].state = "RINGING"]
            /\ current_ringing' = thread_name[t]
            /\ threads' = [threads EXCEPT ![t] = "ring"]
            /\ tm_log' = Logged(tm_log, timers[thread_name[t]].thread, <<"RINGING", t>>)
            /\ rang_muted' = IF tm_muted THEN rang_muted \cup {thread_name[t]}
                                         ELSE rang_muted
       ELSE /\ threads' = [threads EXCEPT ![t] = "done"]
            /\ UNCHANGED <<timers, current_ringing, tm_log, rang_muted>>
    /\ tm_last' = NoCall
    /\ UNCHANGED <<thread_name, sound_thread, sound_loops, stop_sound>>
    /\ UNCHANGED <<fsmVars, mixVars, capVars>>
    /\ UNCHANGED libVars

\* _timer_callback, after the lock: emit TimerFired, clear the stop event,
\* start the alarm
TimerCallbackSound ==
  \E t \in ThreadIds :
    /\ threads[t] = "ring"
    /\ tm_log' = Logged(Logged(tm_log, MarkedBy(tm_log, t), <<"TimerFired", t>>),
                        MarkedBy(tm_log, t), <<"alarm", t>>)
    /\ stop_sound' = FALSE
    /\ sound_loops' = sound_loops \cup {t}
    /\ sound_thread' = t
    /\ threads' = [threads EXCEPT ![t] = "done"]
    /\ tm_last' = NoCall
    /\ UNCHANGED <<timers, thread_name, current_ringing>>
    /\ UNCHANGED rang_muted
    /\ UNCHANGED <<fsmVars, mixVars, capVars>>
    /\ UNCHANGED libVars

\* _play_sound_loop: the loop sees the stop event and ends
SoundLoopExit ==
  \E l \in sound_loops :
    /\ stop_sound
    /\ sound_loops' = sound_loops \ {l}
    /\ tm_last' = NoCall
    /\ UNCHANGED <<timers, threads, thread_name, current_ringing, sound_thread,
                   stop_sound, tm_log>>
    /\ UNCHANGED rang_muted
    /\ UNCHANGED <<fsmVars, mixVars, capVars>>
    /\ UNCHANGED libVars

\* stop_timer(name), name None for "the ringing one"
StopTimer ==
  \E arg \in Names \cup {None} :
    LET name == IF arg = None THEN current_ringing ELSE arg
    IN /\ IF name = None
          THEN /\ tm_last' = Call("stop_timer", arg, "no_ringing")
               /\ UNCHANGED <<timers, threads, stop_sound, sound_loops, sound_thread,
                              current_ringing, tm_log, rang_muted>>
          ELSE IF timers[name].state = "absent"
          THEN /\ tm_last' = Call("stop_timer", arg, "not_found")
               /\ UNCHANGED <<timers, threads, stop_sound, sound_loops, sound_thread,
                              current_ringing, tm_log, rang_muted>>
          ELSE IF timers[name].state = "RINGING"
          THEN /\ stop_sound' = TRUE
               /\ sound_loops' = LoopsAfterStopAlarm
               /\ sound_thread' = NoThread
               /\ current_ringing' = None
               /\ timers' = [timers EXCEPT ![name] = NoTimer]
               /\ tm_last' = Call("stop_timer", arg, "stopped")
               /\ rang_muted' = rang_muted \ {name}
               /\ UNCHANGED <<threads, tm_log>>
          ELSE /\ threads' = Cancel(threads, timers[name].thread)
               /\ timers' = [timers EXCEPT ![name] = NoTimer]
               /\ tm_log' = Logged(tm_log, timers[name].thread, <<"cancelled", 0>>)
               /\ tm_last' = Call("stop_timer", arg, "cancelled")
               /\ UNCHANGED <<stop_sound, sound_loops, sound_thread, current_ringing,
                              rang_muted>>
       /\ UNCHANGED <<thread_name>>
       /\ UNCHANGED <<fsmVars, mixVars, capVars>>
       /\ UNCHANGED libVars

\* stop_any_ringing, under _timers_lock
stop_any_ringing ==
  IF /\ current_ringing # None
     /\ timers[current_ringing].state # "absent"
     /\ timers[current_ringing].state = "RINGING"
  THEN /\ stop_sound' = TRUE
       /\ sound_loops' = LoopsAfterStopAlarm
       /\ sound_thread' = NoThread
       /\ timers' = [timers EXCEPT ![current_ringing] = NoTimer]
       /\ current_ringing' = None
       /\ tm_last' = Call("stop_any_ringing", None, "stopped")
       /\ rang_muted' = rang_muted \ {current_ringing}
       /\ UNCHANGED <<threads, thread_name, tm_log>>
  ELSE UNCHANGED tmVars

\* stop_any_ringing called while an alarm may be ringing
StopAnyRinging ==
  /\ current_ringing # None
  /\ stop_any_ringing
  /\ UNCHANGED <<fsmVars, mixVars, capVars>>
  /\ UNCHANGED libVars

\* the application state the timer manager does not touch
appVars == <<smVars, hVars, conversation_history, thread_id, lsnVars, schVars,
             visitVars, confirmation>>

\* TimerManager.mute: self._muted = True; sd.stop()
TimerMute ==
  /\ tm_muted' = TRUE
  /\ tm_last' = Call("mute", None, "muted")
  /\ UNCHANGED <<timers, threads, thread_name, current_ringing, sound_thread,
                 sound_loops, stop_sound, tm_log, rang_muted>>
  /\ UNCHANGED <<appVars, mixVars, capVars>>
  /\ UNCHANGED libVars

\* unmute, the test under _timers_lock: the current-ringing timer is still
\* RINGING and the alarm thread is None or no longer alive
Restarts(cur, ts, th, loops) ==
  /\ cur # None
  /\ ts[cur].state # "absent"
  /\ ts[cur].state = "RINGING"
  /\ (th = NoThread \/ th \notin loops)

\* the alarm threads unmute() starts, apart from those of the callbacks
UnmuteLoops == (MaxSets + 1)..(MaxSets + MaxUnmuteLoops)
FreeLoop(loops) == CHOOSE u \in UnmuteLoops \ loops :
                     \A v \in UnmuteLoops \ loops : u <= v

\* TimerManager.unmute
TimerUnmute ==
  /\ tm_muted' = FALSE
  /\ IF Restarts(current_ringing, timers, sound_thread, sound_loops)
     THEN /\ UnmuteLoops \ sound_loops # {}
          /\ stop_sound' = FALSE
          /\ sound_thread' = FreeLoop(sound_loops)
          /\ sound_loops' = sound_loops \cup {FreeLoop(sound_loops)}
          /\ tm_last' = Call("unmute", None, "restarted")
     ELSE /\ tm_last' = Call("unmute", None, "unmuted")
          /\ UNCHANGED <<stop_sound, sound_thread, sound_loops>>
  /\ UNCHANGED <<timers, threads, thread_name, current_ringing, tm_log, rang_muted>>
  /\ UNCHANGED <<appVars, mixVars, capVars>>
  /\ UNCHANGED libVars

\* cleanup: under _timers_lock cancel every countdown and clear the timers,
\* then _stop_alarm
Cleanup ==
  /\ threads' = [t \in ThreadIds |->
                   IF \E n \in Names : timers[n].thread = t
                   THEN Cancel(threads, t)[t] ELSE threads[t]]
  /\ timers' = [n \in Names |-> NoTimer]
  /\ stop_sound' = TRUE
  /\ sound_loops' = LoopsAfterStopAlarm
  /\ sound_thread' = NoThread
  /\ rang_muted' = {}
  /\ tm_last' = Call("cleanup", None, "done")
  /\ UNCHANGED <<thread_name, current_ringing, tm_log>>
  /\ UNCHANGED <<fsmVars, mixVars, capVars>>
  /\ UNCHANGED libVars

NextTimer ==
  \/ SetTimer \/ TimerExpire \/ TimerCallbackLocked \/ TimerCallbackSound
  \/ SoundLoopExit \/ StopTimer \/ StopAnyRinging

\* the timer manager with mute, unmute and cleanup
NextAlarm == NextTimer \/ TimerMute \/ TimerUnmute \/ Cleanup



(***************************************************************************)
(* AudioManager, the output mixer (audio/manager.py)                       *)
(*                                                                         *)
(* A clip is the array queue_audio puts on the queue, after resampling and *)
(* normalisation; its samples are told apart by clip and index.            *)
(***************************************************************************)
Clip(k, n) == [src |-> "clip", id |-> k, len |-> n]
LoopClip == [src |-> "loop", id |-> 0, len |-> LoopLen]
COMPLETION_SENTINEL == [src |-> "sentinel", id |-> 0, len |-> 0]
NoAudio == [src |-> "none", id |-> 0, len |-> 0]
Sample(c, i) == <<c.src, c.id, i>>

InitMixer ==
  /\ muted = FALSE
  /\ output_queue = <<>>
  /\ current_output = NoAudio /\ output_position = 0
  /\ loop_audio = NoAudio
  /\ stop_requested = FALSE
  /\ completion_event = FALSE
  /\ cb_pc = "idle" /\ output_pos = 0
  /\ mute_pc = "idle"
  /\ bpc = "idle" /\ b_clip = 0 /\ b_calls = 0
  /\ clips_made = 0
  /\ emitted = <<>> /\ queued = <<>> /\ played = {} /\ disturbed = FALSE
  /\ silenced = FALSE
  /\ ctx_pc = "out" /\ mute_last = "none" /\ mute_depth = 0
  /\ stop_mark = 0

Min(a, b) == IF a <= b THEN a ELSE b

\* variant: the copy starts at the head of the clip whatever the read position
CopyFrom_FromStart(c, pos, n) == [i \in 1..n |-> Sample(c, i)]

\* self._current_output[self._output_position : self._output_position + to_copy]
CopyFrom(c, pos, n) == [i \in 1..n |-> Sample(c, pos + i)]

\* the one-shot samples among those a copy emits
OneShot(c, pos, n) == IF c.src = "clip" THEN CopyFrom(c, pos, n) ELSE <<>>

HasSentinel(q) == \E i \in 1..Len(q) : q[i] = COMPLETION_SENTINEL
HasClip(q) == \E i \in 1..Len(q) : q[i].src = "clip"

\* queue_audio: nothing is queued while muted
QueueAfter(q, m, c) == IF m THEN q ELSE Append(q, c)

\* queue_audio from any thread
QueueAudio ==
  \E n \in 1..MaxClipLen :
    /\ clips_made < MaxClips
    /\ clips_made' = clips_made + 1
    /\ output_queue' = QueueAfter(output_queue, muted, Clip(clips_made + 1, n))
    /\ queued' = QueueAfter(queued, muted, Clip(clips_made + 1, n))
    /\ UNCHANGED <<muted, current_output, output_position, loop_audio, stop_requested,
                   completion_event, cb_pc, output_pos, mute_pc, bpc, b_clip, b_calls,
                   emitted, played, disturbed>>
    /\ UNCHANGED <<silenced, ctx_pc, mute_last, mute_depth>>
    /\ UNCHANGED stop_mark
    /\ UNCHANGED <<fsmVars, tmVars, capVars>>
    /\ UNCHANGED libVars

\* queue_audio_blocking: if self._muted: return False
BlockingStart ==
  /\ bpc = "idle"
  /\ b_calls < MaxBlockingCalls
  /\ clips_made < MaxClips
  /\ b_calls' = b_calls + 1
  /\ b_clip' = 0
  /\ bpc' = IF muted THEN "ret_muted" ELSE "queue"
  /\ UNCHANGED <<muted, output_queue, current_output, output_position, loop_audio,
                 stop_requested, completion_event, cb_pc, output_pos, mute_pc,
                 clips_made, emitted, queued, played, disturbed>>
  /\ UNCHANGED <<silenced, ctx_pc, mute_last, mute_depth>>
  /\ UNCHANGED stop_mark
  /\ UNCHANGED <<fsmVars, tmVars, capVars>>
  /\ UNCHANGED libVars

\* queue_audio_blocking: self.queue_audio(audio, sample_rate)
BlockingQueue ==
  \E n \in 1..MaxClipLen :
    /\ bpc = "queue"
    /\ clips_made' = clips_made + 1
    /\ output_queue' = QueueAfter(output_queue, muted, Clip(clips_made + 1, n))
    /\ queued' = QueueAfter(queued, muted, Clip(clips_made + 1, n))
    /\ b_clip' = IF muted THEN 0 ELSE clips_made + 1
    /\ bpc' = "clear"
    /\ UNCHANGED <<muted, current_output, output_position, loop_audio, stop_requested,
                   completion_event, cb_pc, output_pos, mute_pc, b_calls,
                   emitted, played, disturbed>>
    /\ UNCHANGED <<silenced, ctx_pc, mute_last, mute_depth>>
    /\ UNCHANGED stop_mark
    /\ UNCHANGED <<fsmVars, tmVars, capVars>>
    /\ UNCHANGED libVars

\* queue_audio_blocking: self._completion_event.clear()
BlockingClear ==
  /\ bpc = "clear"
  /\ completion_event' = FALSE
  /\ bpc' = "put"
  /\ UNCHANGED <<muted, output_queue, current_output, output_position, loop_audio,
                 stop_requested, cb_pc, output_pos, mute_pc, b_clip, b_calls,
                 clips_made, emitted, queued, played, disturbed>>
  /\ UNCHANGED <<silenced, ctx_pc, mute_last, mute_depth>>
  /\ UNCHANGED stop_mark
  /\ UNCHANGED <<fsmVars, tmVars, capVars>>
  /\ UNCHANGED libVars

\* queue_audio_blocking: self._output_queue.put(self._COMPLETION_SENTINEL)
BlockingPut ==
  /\ bpc = "put"
  /\ output_queue' = Append(output_queue, COMPLETION_SENTINEL)
  /\ bpc' = "wait"
  /\ UNCHANGED <<muted, current_output, output_position, loop_audio, stop_requested,
                 completion_event, cb_pc, output_pos, mute_pc, b_clip, b_calls,
                 clips_made, emitted, queued, played, disturbed>>
  /\ UNCHANGED <<silenced, ctx_pc, mute_last, mute_depth>>
  /\ UNCHANGED stop_mark
  /\ UNCHANGED <<fsmVars, tmVars, capVars>>
  /\ UNCHANGED libVars

\* queue_audio_blocking: the wait loop ends on the completion event
BlockingComplete ==
  /\ bpc = "wait"
  /\ completion_event
  /\ bpc' = "ret_false"
  /\ UNCHANGED <<muted, output_queue, current_output, output_position, loop_audio,
                 stop_requested, completion_event, cb_pc, output_pos, mute_pc, b_clip,
                 b_calls, clips_made, emitted, queued, played, disturbed>>
  /\ UNCHANGED <<silenced, ctx_pc, mute_last, mute_depth>>
  /\ UNCHANGED stop_mark
  /\ UNCHANGED <<fsmVars, tmVars, capVars>>
  /\ UNCHANGED libVars

\* queue_audio_blocking: interrupt_check() is true: stop_current, return True
BlockingInterrupt ==
  /\ bpc = "wait"
  /\ ~completion_event
  /\ stop_requested' = TRUE
  /\ disturbed' = TRUE
  /\ bpc' = "ret_true"
  /\ UNCHANGED <<muted, output_queue, current_output, output_position, loop_audio,
                 completion_event, cb_pc, output_pos, mute_pc, b_clip, b_calls,
                 clips_made, emitted, queued, played>>
  /\ UNCHANGED <<silenced, ctx_pc, mute_last, mute_depth>>
  /\ stop_mark' = clips_made
  /\ UNCHANGED <<fsmVars, tmVars, capVars>>
  /\ UNCHANGED libVars

\* the caller has its answer
BlockingReturn ==
  /\ bpc \in {"ret_muted", "ret_false", "ret_true"}
  /\ bpc' = "idle"
  /\ UNCHANGED <<muted, output_queue, current_output, output_position, loop_audio,
                 stop_requested, completion_event, cb_pc, output_pos, mute_pc, b_clip,
                 b_calls, clips_made, emitted, queued, played, disturbed>>
  /\ UNCHANGED <<silenced, ctx_pc, mute_last, mute_depth>>
  /\ UNCHANGED stop_mark
  /\ UNCHANGED <<fsmVars, tmVars, capVars>>
  /\ UNCHANGED libVars

\* stop_current from any thread
StopCurrent ==
  /\ stop_requested' = TRUE
  /\ disturbed' = TRUE
  /\ ~(stop_requested /\ disturbed)
  /\ UNCHANGED <<muted, output_queue, current_output, output_position, loop_audio,
                 completion_event, cb_pc, output_pos, mute_pc, bpc, b_clip, b_calls,
                 clips_made, emitted, queued, played>>
  /\ UNCHANGED <<silenced, ctx_pc, mute_last, mute_depth>>
  /\ stop_mark' = clips_made
  /\ UNCHANGED <<fsmVars, tmVars, capVars>>
  /\ UNCHANGED libVars

\* self._muted = True
AfterMute(m) == TRUE

\* variant: unmute() leaves the flag as it finds it
AfterUnmute_Keep(m) == m

\* self._muted = False
AfterUnmute(m) == FALSE

\* mute, under self._lock: self._muted = True
MuteSetFlag ==
  /\ mute_pc = "idle"
  /\ muted' = AfterMute(muted)
  /\ mute_last' = "mute"
  /\ mute_depth' = Min(mute_depth + 1, MaxDepth)
  /\ UNCHANGED ctx_pc
  /\ disturbed' = TRUE
  /\ mute_pc' = "stop_current"
  /\ UNCHANGED <<output_queue, current_output, output_position, loop_audio,
                 stop_requested, completion_event, cb_pc, output_pos, bpc, b_clip,
                 b_calls, clips_made, emitted, queued, played>>
  /\ silenced' = FALSE
  /\ UNCHANGED stop_mark
  /\ UNCHANGED <<fsmVars, tmVars, capVars>>
  /\ UNCHANGED libVars

\* mute: self.stop_current()
MuteStopCurrent ==
  /\ mute_pc = "stop_current"
  /\ stop_requested' = TRUE
  /\ mute_pc' = "stop_loop"
  /\ UNCHANGED <<muted, output_queue, current_output, output_position, loop_audio,
                 completion_event, cb_pc, output_pos, bpc, b_clip, b_calls,
                 clips_made, emitted, queued, played, disturbed>>
  /\ UNCHANGED <<silenced, ctx_pc, mute_last, mute_depth>>
  /\ stop_mark' = clips_made
  /\ UNCHANGED <<fsmVars, tmVars, capVars>>
  /\ UNCHANGED libVars

\* mute: self.stop_loop()
MuteStopLoop ==
  /\ mute_pc = "stop_loop"
  /\ loop_audio' = NoAudio
  /\ mute_pc' = "idle"
  /\ UNCHANGED <<muted, output_queue, current_output, output_position,
                 stop_requested, completion_event, cb_pc, output_pos, bpc, b_clip,
                 b_calls, clips_made, emitted, queued, played, disturbed>>
  /\ silenced' = FALSE
  /\ UNCHANGED <<ctx_pc, mute_last, mute_depth>>
  /\ UNCHANGED stop_mark
  /\ UNCHANGED <<fsmVars, tmVars, capVars>>
  /\ UNCHANGED libVars

\* unmute, under self._lock
Unmute ==
  /\ mute_pc = "idle"
  /\ muted' = AfterUnmute(muted)
  /\ mute_last' = "unmute"
  /\ mute_depth' = IF mute_depth > 0 THEN mute_depth - 1 ELSE 0
  /\ UNCHANGED ctx_pc
  /\ UNCHANGED <<output_queue, current_output, output_position, loop_audio,
                 stop_requested, completion_event, cb_pc, output_pos, mute_pc, bpc,
                 b_clip, b_calls, clips_made, emitted, queued, played, disturbed>>
  /\ silenced' = FALSE
  /\ UNCHANGED stop_mark
  /\ UNCHANGED <<fsmVars, tmVars, capVars>>
  /\ UNCHANGED libVars

\* muted_context: self.mute(), whose first step takes self._lock
ContextEnter ==
  /\ ctx_pc = "out"
  /\ mute_pc = "idle"
  /\ ctx_pc' = "in"
  /\ muted' = AfterMute(muted)
  /\ mute_last' = "mute"
  /\ mute_depth' = Min(mute_depth + 1, MaxDepth)
  /\ disturbed' = TRUE
  /\ mute_pc' = "stop_current"
  /\ silenced' = FALSE
  /\ UNCHANGED <<output_queue, current_output, output_position, loop_audio,
                 stop_requested, completion_event, cb_pc, output_pos, bpc, b_clip,
                 b_calls, clips_made, emitted, queued, played>>
  /\ UNCHANGED stop_mark
  /\ UNCHANGED <<fsmVars, tmVars, capVars>>
  /\ UNCHANGED libVars

\* muted_context: the body of the with statement raises
ContextRaise ==
  /\ ctx_pc = "in"
  /\ mute_pc = "idle"
  /\ ctx_pc' = "raised"
  /\ UNCHANGED <<muted, output_queue, current_output, output_position, loop_audio,
                 stop_requested, completion_event, cb_pc, output_pos, mute_pc, bpc,
                 b_clip, b_calls, clips_made, emitted, queued, played, disturbed,
                 silenced, mute_last, mute_depth>>
  /\ UNCHANGED stop_mark
  /\ UNCHANGED <<fsmVars, tmVars, capVars>>
  /\ UNCHANGED libVars

\* muted_context: finally: self.unmute(), after the body or its exception
ContextFinally ==
  /\ ctx_pc \in {"in", "raised"}
  /\ mute_pc = "idle"
  /\ ctx_pc' = "out"
  /\ muted' = AfterUnmute(muted)
  /\ mute_last' = "unmute"
  /\ mute_depth' = IF mute_depth > 0 THEN mute_depth - 1 ELSE 0
  /\ silenced' = FALSE
  /\ UNCHANGED <<output_queue, current_output, output_position, loop_audio,
                 stop_requested, completion_event, cb_pc, output_pos, mute_pc, bpc,
                 b_clip, b_calls, clips_made, emitted, queued, played, disturbed>>
  /\ UNCHANGED stop_mark
  /\ UNCHANGED <<fsmVars, tmVars, capVars>>
  /\ UNCHANGED libVars

\* start_loop
StartLoop ==
  /\ loop_audio = NoAudio
  /\ loop_audio' = LoopClip
  /\ UNCHANGED <<muted, output_queue, current_output, output_position,
                 stop_requested, completion_event, cb_pc, output_pos, mute_pc, bpc,
                 b_clip, b_calls, clips_made, emitted, queued, played, disturbed>>
  /\ UNCHANGED <<silenced, ctx_pc, mute_last, mute_depth>>
  /\ UNCHANGED stop_mark
  /\ UNCHANGED <<fsmVars, tmVars, capVars>>
  /\ UNCHANGED libVars

\* stop_loop
StopLoop ==
  /\ loop_audio # NoAudio
  /\ loop_audio' = NoAudio
  /\ UNCHANGED <<muted, output_queue, current_output, output_position,
                 stop_requested, completion_event, cb_pc, output_pos, mute_pc, bpc,
                 b_clip, b_calls, clips_made, emitted, queued, played, disturbed>>
  /\ UNCHANGED <<silenced, ctx_pc, mute_last, mute_depth>>
  /\ UNCHANGED stop_mark
  /\ UNCHANGED <<fsmVars, tmVars, capVars>>
  /\ UNCHANGED libVars

\* _output_callback is invoked: the stop branch, or the start of the fill loop
CallbackBegin ==
  /\ cb_pc = "idle"
  /\ IF stop_requested
     THEN /\ current_output' = NoAudio /\ output_position' = 0
          /\ completion_event' = (completion_event \/ HasSentinel(output_queue))
          /\ output_queue' = <<>>
          /\ stop_requested' = FALSE
          /\ UNCHANGED <<cb_pc, output_pos>>
     ELSE /\ cb_pc' = "fill" /\ output_pos' = 0
          /\ UNCHANGED <<current_output, output_position, completion_event,
                         output_queue, stop_requested>>
  /\ UNCHANGED <<muted, loop_audio, mute_pc, bpc, b_clip, b_calls, clips_made,
                 emitted, queued, played, disturbed>>
  /\ silenced' = (silenced \/ (muted /\ mute_pc = "idle"))
  /\ UNCHANGED <<ctx_pc, mute_last, mute_depth>>
  /\ stop_mark' = IF stop_requested THEN 0 ELSE stop_mark
  /\ UNCHANGED <<fsmVars, tmVars, capVars>>
  /\ UNCHANGED libVars

\* _output_callback: one round of "while output_pos < frames"
CallbackStep ==
  /\ cb_pc = "fill"
  /\ output_pos < Frames
  /\ IF current_output # NoAudio
     THEN LET remaining == current_output.len - output_position
              to_copy == Min(remaining, Frames - output_pos)
              finished == output_position + to_copy >= current_output.len
          IN /\ emitted' = emitted \o OneShot(current_output, output_position, to_copy)
             /\ output_pos' = output_pos + to_copy
             /\ output_position' = IF finished THEN 0 ELSE output_position + to_copy
             /\ current_output' = IF finished THEN NoAudio ELSE current_output
             /\ played' = IF finished /\ current_output.src = "clip"
                          THEN played \cup {current_output.id} ELSE played
             /\ UNCHANGED <<output_queue, completion_event, cb_pc>>
     ELSE IF output_queue # <<>>
     THEN /\ output_queue' = Tail(output_queue)
          /\ IF Head(output_queue) = COMPLETION_SENTINEL
             THEN /\ completion_event' = TRUE
                  /\ UNCHANGED <<current_output, output_position>>
             ELSE /\ current_output' = Head(output_queue)
                  /\ output_position' = 0
                  /\ UNCHANGED completion_event
          /\ UNCHANGED <<emitted, output_pos, played, cb_pc>>
     ELSE IF loop_audio # NoAudio
     THEN /\ current_output' = loop_audio
          /\ output_position' = 0
          /\ UNCHANGED <<output_queue, completion_event, emitted, output_pos, played,
                         cb_pc>>
     ELSE /\ cb_pc' = "idle" /\ output_pos' = 0
          /\ UNCHANGED <<output_queue, completion_event, emitted, played,
                         current_output, output_position>>
  /\ UNCHANGED <<muted, loop_audio, stop_requested, mute_pc, bpc, b_clip, b_calls,
                 clips_made, queued, disturbed>>
  /\ UNCHANGED <<silenced, ctx_pc, mute_last, mute_depth>>
  /\ UNCHANGED stop_mark
  /\ UNCHANGED <<fsmVars, tmVars, capVars>>
  /\ UNCHANGED libVars

\* _output_callback: the buffer is full
CallbackReturn ==
  /\ cb_pc = "fill"
  /\ output_pos >= Frames
  /\ cb_pc' = "idle" /\ output_pos' = 0
  /\ UNCHANGED <<muted, output_queue, current_output, output_position, loop_audio,
                 stop_requested, completion_event, mute_pc, bpc, b_clip, b_calls,
                 clips_made, emitted, queued, played, disturbed>>
  /\ UNCHANGED <<silenced, ctx_pc, mute_last, mute_depth>>
  /\ UNCHANGED stop_mark
  /\ UNCHANGED <<fsmVars, tmVars, capVars>>
  /\ UNCHANGED libVars

NextMixer ==
  \/ QueueAudio \/ BlockingStart \/ BlockingQueue \/ BlockingClear \/ BlockingPut
  \/ BlockingComplete \/ BlockingInterrupt \/ BlockingReturn
  \/ StopCurrent \/ MuteSetFlag \/ MuteStopCurrent \/ MuteStopLoop \/ Unmute
  \/ StartLoop \/ StopLoop
  \/ CallbackBegin \/ CallbackStep \/ CallbackReturn


(***************************************************************************)
(* WakeWordListener and WakeWordMonitor, the capture loops                 *)
(* (wake_word/wake_word_listener.py)                                       *)
(*                                                                         *)
(* One call is in progress at a time: wait_for_wake_word_and_speech,       *)
(* listen_for_speech, or the monitor thread of a Speaking turn.  A frame   *)
(* is one stream.read of CHUNK samples, and a read takes one frame of      *)
(* time: cap_time counts the frames read in the call and stands for        *)
(* time.time().  Samples are numbered as the microphone delivers them.     *)
(***************************************************************************)
NoReturn == [kind |-> "pending", samples |-> <<>>, how |-> "pending"]
Returned(kind, samples, how) == [kind |-> kind, samples |-> samples, how |-> how]
NoTime == -1

InitListener ==
  /\ lpc = "idle" /\ call = None
  /\ stream = "none"
  /\ ring_buffer = <<>> /\ audio_chunks = <<>>
  /\ vad_buffer = 0
  /\ speech_detected = FALSE /\ last_speech_time = 0 /\ start_time = 0
  /\ cap_time = 0 /\ mic = 0 /\ calls = 0
  /\ ret = NoReturn
  /\ stop_event = FALSE
  /\ trigger_ring = <<>> /\ first_sample = 0
  /\ speech_at = NoTime /\ first_speech_at = NoTime /\ heard_at = NoTime /\ overdue = FALSE
  /\ spk_pc = "idle"

\* the last n elements of a sequence
LastN(s, n) == IF Len(s) <= n THEN s ELSE SubSeq(s, Len(s) - n + 1, Len(s))

\* variant: a full buffer takes no more samples
RingExtend_KeepOldest(buf, chunk) ==
  IF Len(buf \o chunk) <= BufferSamples THEN buf \o chunk
  ELSE SubSeq(buf \o chunk, 1, BufferSamples)

\* collections.deque(maxlen=buffer_samples).extend
RingExtend(buf, chunk) == LastN(buf \o chunk, BufferSamples)

\* the frame stream.read returns when m samples have been read before it
Chunk(m) == [i \in 1..CHUNK |-> m + i]

\* VADProcessor.process: the complete windows in the buffered audio, and what
\* stays buffered
Windows(buffered) == (buffered + CHUNK) \div VAD_CHUNK
Remaining(buffered) == (buffered + CHUNK) % VAD_CHUNK

\* the speech probabilities of n windows, each above 0.5 or not
Probabilities(n) == [1..n -> BOOLEAN]

\* variant: end-pointing does not ask whether speech was detected
RECURSIVE EndPointing_AnySilence(_, _, _, _, _)
EndPointing_AnySilence(probs, k, detected, last, t) ==
  IF k > Len(probs)
  THEN [speech_detected |-> detected, last_speech_time |-> last, stop |-> FALSE,
        seen |-> Len(probs)]
  ELSE LET d == detected \/ probs[k]
           l == IF probs[k] THEN t ELSE last
       IN IF (t - l) > SilenceFrames
          THEN [speech_detected |-> d, last_speech_time |-> l, stop |-> TRUE,
                seen |-> k]
          ELSE EndPointing_AnySilence(probs, k + 1, d, l, t)

\* the loop over vad.process() in _record_until_silence and
\* _capture_until_silence, from window k on, at time t
RECURSIVE EndPointing(_, _, _, _, _)
EndPointing(probs, k, detected, last, t) ==
  IF k > Len(probs)
  THEN [speech_detected |-> detected, last_speech_time |-> last, stop |-> FALSE,
        seen |-> Len(probs)]
  ELSE LET d == detected \/ probs[k]
           l == IF probs[k] THEN t ELSE last
       IN IF d /\ (t - l) > SilenceFrames
          THEN [speech_detected |-> d, last_speech_time |-> l, stop |-> TRUE,
                seen |-> k]
          ELSE EndPointing(probs, k + 1, d, l, t)

\* whether one of the first n windows is speech
AnySpeech(probs, n) == \E k \in 1..n : probs[k]

\* a call returns: "with self._stream" closes the stream
Return(kind, samples, how) ==
  /\ lpc' = "returned"
  /\ ret' = Returned(kind, samples, how)
  /\ stream' = "closed"

\* the caller takes the result; the listener is free for the next call
LsnDone ==
  /\ lpc = "returned"
  /\ call = "monitor" => spk_pc \in {"stopped", "finally"}
  /\ lpc' = "idle" /\ call' = None
  /\ ret' = NoReturn
  /\ audio_chunks' = <<>> /\ trigger_ring' = <<>>
  /\ vad_buffer' = 0 /\ speech_detected' = FALSE /\ last_speech_time' = 0
  /\ start_time' = 0 /\ cap_time' = 0 /\ first_sample' = 0
  /\ speech_at' = NoTime /\ first_speech_at' = NoTime /\ heard_at' = NoTime
  /\ stop_event' = FALSE
  /\ UNCHANGED <<stream, ring_buffer, mic, calls, overdue>>
  /\ spk_pc' = "idle"
  /\ UNCHANGED <<fsmVars, tmVars, mixVars>>
  /\ UNCHANGED libVars

\* wait_for_wake_word_and_speech, up to "with self._stream"
CallWake ==
  /\ lpc = "idle" /\ calls < MaxCalls
  /\ calls' = calls + 1 /\ call' = "wake"
  /\ interrupted' = FALSE
  /\ ring_buffer' = <<>>
  /\ stream' = "open"
  /\ lpc' = "wake_loop"
  /\ first_sample' = mic + 1
  /\ UNCHANGED <<audio_chunks, vad_buffer, speech_detected, last_speech_time,
                 start_time, cap_time, mic, ret, stop_event, trigger_ring,
                 speech_at, first_speech_at, heard_at, overdue>>
  /\ UNCHANGED spk_pc
  /\ UNCHANGED <<smVars, hVars, ctxVars, schVars, visitVars, confirmation, tmVars, mixVars>>
  /\ UNCHANGED libVars

\* _wait_for_wake_word: while not self._interrupted.is_set()
WakeLoop ==
  /\ lpc = "wake_loop"
  /\ IF interrupted
     THEN Return("None", <<>>, "interrupted")
     ELSE lpc' = "wake_read" /\ UNCHANGED <<ret, stream>>
  /\ UNCHANGED <<call, ring_buffer, audio_chunks, vad_buffer, speech_detected,
                 last_speech_time, start_time, cap_time, mic, calls, stop_event,
                 trigger_ring, first_sample, speech_at, first_speech_at, heard_at, overdue>>
  /\ UNCHANGED spk_pc
  /\ UNCHANGED <<fsmVars, tmVars, mixVars>>
  /\ UNCHANGED libVars

\* _wait_for_wake_word: the read returns a frame, the frame goes into the
\* ring buffer and the wake model scores it; a trigger starts
\* _record_until_silence.  A read on a closed stream raises, and
\* wait_for_wake_word_and_speech returns None
WakeRead ==
  /\ lpc = "wake_read"
  /\ IF stream = "closed"
     THEN /\ Return("None", <<>>, "error")
          /\ UNCHANGED <<ring_buffer, cap_time, mic, audio_chunks, speech_detected,
                         last_speech_time, vad_buffer, trigger_ring, speech_at, first_speech_at>>
     ELSE /\ mic < MaxReads * CHUNK
          /\ ring_buffer' = RingExtend(ring_buffer, Chunk(mic))
          /\ mic' = mic + CHUNK
          /\ cap_time' = cap_time + 1
          /\ \E detected \in BOOLEAN :
               IF detected
               THEN /\ audio_chunks' = ring_buffer'
                    /\ trigger_ring' = ring_buffer'
                    /\ speech_detected' = FALSE
                    /\ last_speech_time' = cap_time'
                    /\ vad_buffer' = 0
                    /\ speech_at' = NoTime /\ first_speech_at' = NoTime
                    /\ lpc' = "record_loop"
               ELSE /\ lpc' = "wake_loop"
                    /\ UNCHANGED <<audio_chunks, trigger_ring, speech_detected,
                                   last_speech_time, vad_buffer, speech_at, first_speech_at>>
          /\ UNCHANGED <<ret, stream>>
  /\ UNCHANGED <<call, start_time, calls, stop_event, first_sample, heard_at,
                 overdue>>
  /\ UNCHANGED spk_pc
  /\ UNCHANGED <<fsmVars, tmVars, mixVars>>
  /\ UNCHANGED libVars

\* listen_for_speech, up to "with self._stream"
CallListen ==
  /\ lpc = "idle" /\ calls < MaxCalls
  /\ calls' = calls + 1 /\ call' = "listen"
  /\ interrupted' = FALSE
  /\ ring_buffer' = <<>>
  /\ vad_buffer' = 0
  /\ start_time' = cap_time
  /\ stream' = "open"
  /\ lpc' = "speech_loop"
  /\ first_sample' = mic + 1
  /\ UNCHANGED <<audio_chunks, speech_detected, last_speech_time, cap_time, mic,
                 ret, stop_event, trigger_ring, speech_at, first_speech_at, heard_at, overdue>>
  /\ UNCHANGED spk_pc
  /\ UNCHANGED <<smVars, hVars, ctxVars, schVars, visitVars, confirmation, tmVars, mixVars>>
  /\ UNCHANGED libVars

\* listen_for_speech: the head of the wait loop, with the timeout test
SpeechLoop ==
  /\ lpc = "speech_loop"
  /\ IF interrupted
     THEN Return("None", <<>>, "interrupted")
     ELSE IF (cap_time - start_time) > TimeoutFrames
     THEN Return("None", <<>>, "timeout")
     ELSE lpc' = "speech_read" /\ UNCHANGED <<ret, stream>>
  /\ UNCHANGED <<call, ring_buffer, audio_chunks, vad_buffer, speech_detected,
                 last_speech_time, start_time, cap_time, mic, calls, stop_event,
                 trigger_ring, first_sample, speech_at, first_speech_at, heard_at, overdue>>
  /\ UNCHANGED spk_pc
  /\ UNCHANGED <<fsmVars, tmVars, mixVars>>
  /\ UNCHANGED libVars

\* listen_for_speech: a frame is read; the first window above 0.5 trims the
\* ring buffer to the recent samples and starts _record_until_silence
SpeechRead ==
  /\ lpc = "speech_read"
  /\ IF stream = "closed"
     THEN /\ Return("None", <<>>, "error")
          /\ UNCHANGED <<ring_buffer, cap_time, mic, audio_chunks, speech_detected,
                         last_speech_time, vad_buffer, trigger_ring, speech_at,
                         first_speech_at,
                         heard_at>>
     ELSE /\ mic < MaxReads * CHUNK
          /\ mic' = mic + CHUNK
          /\ cap_time' = cap_time + 1
          /\ \E probs \in Probabilities(Windows(vad_buffer)) :
               IF AnySpeech(probs, Len(probs))
               THEN /\ ring_buffer' =
                         LastN(RingExtend(ring_buffer, Chunk(mic)), RecentSamples)
                    /\ audio_chunks' = ring_buffer'
                    /\ trigger_ring' = ring_buffer'
                    /\ speech_detected' = FALSE
                    /\ last_speech_time' = cap_time'
                    /\ vad_buffer' = 0
                    /\ speech_at' = NoTime /\ first_speech_at' = NoTime
                    /\ heard_at' = cap_time'
                    /\ lpc' = "record_loop"
               ELSE /\ ring_buffer' = RingExtend(ring_buffer, Chunk(mic))
                    /\ vad_buffer' = Remaining(vad_buffer)
                    /\ lpc' = "speech_loop"
                    /\ UNCHANGED <<audio_chunks, trigger_ring, speech_detected,
                                   last_speech_time, speech_at, first_speech_at, heard_at>>
          /\ UNCHANGED <<ret, stream>>
  /\ UNCHANGED <<call, start_time, calls, stop_event, first_sample, overdue>>
  /\ UNCHANGED spk_pc
  /\ UNCHANGED <<fsmVars, tmVars, mixVars>>
  /\ UNCHANGED libVars

\* _record_until_silence: while not self._interrupted.is_set()
RecordLoop ==
  /\ lpc = "record_loop"
  /\ IF interrupted
     THEN Return("audio", audio_chunks, "interrupted")
     ELSE lpc' = "record_read" /\ UNCHANGED <<ret, stream>>
  /\ UNCHANGED <<call, ring_buffer, audio_chunks, vad_buffer, speech_detected,
                 last_speech_time, start_time, cap_time, mic, calls, stop_event,
                 trigger_ring, first_sample, speech_at, first_speech_at, heard_at, overdue>>
  /\ UNCHANGED spk_pc
  /\ UNCHANGED <<fsmVars, tmVars, mixVars>>
  /\ UNCHANGED libVars

\* _record_until_silence: a frame is read and appended, its windows go
\* through the end-pointing test
RecordRead ==
  /\ lpc = "record_read"
  /\ IF stream = "closed"
     THEN /\ Return("None", <<>>, "error")
          /\ UNCHANGED <<cap_time, mic, audio_chunks, speech_detected,
                         last_speech_time, vad_buffer, speech_at, first_speech_at, heard_at, overdue>>
     ELSE /\ mic < MaxReads * CHUNK
          /\ mic' = mic + CHUNK
          /\ cap_time' = cap_time + 1
          /\ audio_chunks' = audio_chunks \o Chunk(mic)
          /\ \E probs \in Probabilities(Windows(vad_buffer)) :
               LET r == EndPointing(probs, 1, speech_detected, last_speech_time,
                                    cap_time')
                   spoke == AnySpeech(probs, r.seen)
               IN /\ speech_detected' = r.speech_detected
                  /\ last_speech_time' = r.last_speech_time
                  /\ speech_at' = IF spoke THEN cap_time' ELSE speech_at
                  /\ first_speech_at' = IF spoke /\ first_speech_at = NoTime THEN cap_time'
                                      ELSE first_speech_at
                  /\ heard_at' = IF spoke /\ call = "listen" THEN cap_time' ELSE heard_at
                  /\ IF r.stop
                     THEN /\ Return("audio", audio_chunks', "endpoint")
                          /\ UNCHANGED <<vad_buffer, overdue>>
                     ELSE /\ lpc' = "record_loop"
                          /\ vad_buffer' = Remaining(vad_buffer)
                          /\ overdue' = (overdue \/ (/\ call = "listen"
                                                     /\ (cap_time' - heard_at') > SilenceFrames))
                          /\ UNCHANGED <<ret, stream>>
  /\ UNCHANGED <<call, ring_buffer, start_time, calls, stop_event, trigger_ring,
                 first_sample>>
  /\ UNCHANGED spk_pc
  /\ UNCHANGED <<fsmVars, tmVars, mixVars>>
  /\ UNCHANGED libVars

\* WakeWordMonitor.start: the monitor thread opens its stream
MonitorStart ==
  /\ lpc = "idle" /\ calls < MaxCalls
  /\ calls' = calls + 1 /\ call' = "monitor"
  /\ ring_buffer' = <<>>
  /\ stop_event' = FALSE
  /\ stream' = "open"
  /\ lpc' = "monitor_loop"
  /\ first_sample' = mic + 1
  /\ UNCHANGED <<audio_chunks, vad_buffer, speech_detected, last_speech_time,
                 start_time, cap_time, mic, ret, trigger_ring, speech_at, first_speech_at, heard_at,
                 overdue>>
  /\ spk_pc' = "speaking"
  /\ UNCHANGED <<fsmVars, tmVars, mixVars>>
  /\ UNCHANGED libVars

\* _monitor_loop: one round; a trigger starts _capture_until_silence
MonitorLoop ==
  /\ lpc = "monitor_loop"
  /\ IF stop_event
     THEN /\ Return("None", <<>>, "interrupted")
          /\ UNCHANGED <<ring_buffer, cap_time, mic, audio_chunks, speech_detected,
                         last_speech_time, vad_buffer, trigger_ring, speech_at, first_speech_at>>
     ELSE /\ mic < MaxReads * CHUNK
          /\ ring_buffer' = RingExtend(ring_buffer, Chunk(mic))
          /\ mic' = mic + CHUNK
          /\ cap_time' = cap_time + 1
          /\ \E detected \in BOOLEAN :
               IF detected
               THEN /\ audio_chunks' = ring_buffer'
                    /\ trigger_ring' = ring_buffer'
                    /\ speech_detected' = FALSE
                    /\ last_speech_time' = cap_time'
                    /\ vad_buffer' = 0
                    /\ speech_at' = NoTime /\ first_speech_at' = NoTime
                    /\ lpc' = "capture_loop"
               ELSE /\ lpc' = "monitor_loop"
                    /\ UNCHANGED <<audio_chunks, trigger_ring, speech_detected,
                                   last_speech_time, vad_buffer, speech_at, first_speech_at>>
          /\ UNCHANGED <<ret, stream>>
  /\ UNCHANGED <<call, start_time, calls, stop_event, first_sample, heard_at,
                 overdue>>
  /\ UNCHANGED spk_pc
  /\ UNCHANGED <<fsmVars, tmVars, mixVars>>
  /\ UNCHANGED libVars

\* _capture_until_silence: one round of the loop
MonitorCapture ==
  /\ lpc = "capture_loop"
  /\ IF stop_event
     THEN /\ Return("audio", audio_chunks, "interrupted")
          /\ UNCHANGED <<cap_time, mic, audio_chunks, speech_detected,
                         last_speech_time, vad_buffer, speech_at, first_speech_at>>
     ELSE /\ mic < MaxReads * CHUNK
          /\ mic' = mic + CHUNK
          /\ cap_time' = cap_time + 1
          /\ audio_chunks' = audio_chunks \o Chunk(mic)
          /\ \E probs \in Probabilities(Windows(vad_buffer)) :
               LET r == EndPointing(probs, 1, speech_detected, last_speech_time,
                                    cap_time')
               IN /\ speech_detected' = r.speech_detected
                  /\ last_speech_time' = r.last_speech_time
                  /\ speech_at' = IF AnySpeech(probs, r.seen) THEN cap_time'
                                  ELSE speech_at
                  /\ first_speech_at' = IF AnySpeech(probs, r.seen) /\ first_speech_at = NoTime
                                        THEN cap_time' ELSE first_speech_at
                  /\ IF r.stop
                     THEN /\ Return("audio", audio_chunks', "endpoint")
                          /\ UNCHANGED vad_buffer
                     ELSE /\ lpc' = "capture_loop"
                          /\ vad_buffer' = Remaining(vad_buffer)
                          /\ UNCHANGED <<ret, stream>>
  /\ UNCHANGED <<call, ring_buffer, start_time, calls, stop_event, trigger_ring,
                 first_sample, heard_at, overdue>>
  /\ UNCHANGED spk_pc
  /\ UNCHANGED <<fsmVars, tmVars, mixVars>>
  /\ UNCHANGED libVars

\* self._monitor.was_detected()
was_detected == lpc = "capture_loop" \/ (lpc = "returned" /\ ret.kind = "audio")

\* speak_interruptibly: speak_text has returned, True if its interrupt check
\* saw the detection while the clip was playing
SpeakReturns ==
  /\ spk_pc = "speaking"
  /\ \E was_interrupted \in {b \in BOOLEAN : b => was_detected} :
       spk_pc' = IF was_interrupted THEN "interrupted" ELSE "finished"
  /\ UNCHANGED <<lpc, call, stream, ring_buffer, audio_chunks, vad_buffer,
                 speech_detected, last_speech_time, start_time, cap_time, mic, calls,
                 ret, stop_event, trigger_ring, first_sample, speech_at,
                 first_speech_at, heard_at, overdue>>
  /\ UNCHANGED <<fsmVars, tmVars, mixVars>>
  /\ UNCHANGED libVars

\* WakeWordMonitor.stop, from the speaking thread: after the listening tone
\* of an interrupted playback, and in the finally clause
MonitorStop ==
  /\ call = "monitor"
  /\ spk_pc \in {"interrupted", "finished"}
  /\ stop_event' = TRUE
  /\ UNCHANGED <<lpc, call, stream, ring_buffer, audio_chunks, vad_buffer,
                 speech_detected, last_speech_time, start_time, cap_time, mic, calls,
                 ret, trigger_ring, first_sample, speech_at, first_speech_at, heard_at, overdue>>
  /\ spk_pc' = IF spk_pc = "interrupted" THEN "stopped" ELSE "finally"
  /\ UNCHANGED <<fsmVars, tmVars, mixVars>>
  /\ UNCHANGED libVars

\* self._stream.close() in stop()
StreamAfterStop(st) == IF st = "none" THEN "none" ELSE "closed"

\* WakeWordListener.interrupt, from another thread
LsnInterrupt ==
  /\ interrupted' = TRUE
  /\ UNCHANGED <<lpc, call, stream, ring_buffer, audio_chunks, vad_buffer,
                 speech_detected, last_speech_time, start_time, cap_time, mic, calls,
                 ret, stop_event, trigger_ring, first_sample, speech_at, first_speech_at, heard_at,
                 overdue>>
  /\ UNCHANGED spk_pc
  /\ UNCHANGED <<smVars, hVars, ctxVars, schVars, visitVars, confirmation, tmVars, mixVars>>
  /\ UNCHANGED libVars

\* WakeWordListener.stop, from another thread
LsnStop ==
  /\ interrupted' = TRUE
  /\ stream' = StreamAfterStop(stream)
  /\ UNCHANGED <<lpc, call, ring_buffer, audio_chunks, vad_buffer,
                 speech_detected, last_speech_time, start_time, cap_time, mic, calls,
                 ret, stop_event, trigger_ring, first_sample, speech_at, first_speech_at, heard_at,
                 overdue>>
  /\ UNCHANGED spk_pc
  /\ UNCHANGED <<smVars, hVars, ctxVars, schVars, visitVars, confirmation, tmVars, mixVars>>
  /\ UNCHANGED libVars

NextListener ==
  \/ CallWake \/ WakeLoop \/ WakeRead
  \/ CallListen \/ SpeechLoop \/ SpeechRead
  \/ RecordLoop \/ RecordRead
  \/ MonitorStart \/ MonitorLoop \/ MonitorCapture \/ SpeakReturns \/ MonitorStop
  \/ LsnInterrupt \/ LsnStop \/ LsnDone

(***************************************************************************)
(* ReminderManager (agent/tools/reminder.py): the reminders table, with    *)
(* the due times stored as the text datetime.isoformat() gives             *)
(***************************************************************************)
ReminderIds == 1..MaxReminders
Messages == {"m1", "m2"}
Statuses == {"pending", "delivered", "cleared"}

\* naive datetimes within one minute: the second and the fraction of it
Datetime(s, u) == [second |-> s, microsecond |-> u]
DueTimes == {Datetime(2, 0), Datetime(2, 5), Datetime(10, 0)}

\* an argument that may be None: <<>>, or <<v>>
Optional(S) == {<<>>} \cup {<<v>> : v \in S}

\* datetime.isoformat: the characters of the text, by their codes; the digits
\* of the second are zero-padded and the fraction is left out when it is zero
isoformat(dt) ==
  <<48 + (dt.second \div 10), 48 + (dt.second % 10)>>
    \o (IF dt.microsecond = 0 THEN <<>> ELSE <<46, 48 + dt.microsecond>>)

\* datetime.fromisoformat
fromisoformat(text) ==
  Datetime((text[1] - 48) * 10 + (text[2] - 48),
           IF Len(text) > 2 THEN text[4] - 48 ELSE 0)

\* the order of TEXT values in SQLite: bytewise, a prefix before what extends it
TextLess(a, b) ==
  LET n == IF Len(a) < Len(b) THEN Len(a) ELSE Len(b)
      diff == {i \in 1..n : a[i] # b[i]}
  IN IF diff = {}
     THEN Len(a) < Len(b)
     ELSE LET i == CHOOSE j \in diff : \A k \in diff : j <= k
          IN a[i] < b[i]

\* no row with this id
NoRow == [exists |-> FALSE, message |-> "", due_datetime |-> <<>>, status |-> ""]

\* ReminderManager.__init__: an empty table
InitReminderManager ==
  /\ rm_rows = [i \in ReminderIds |-> NoRow]
  /\ rm_next = 1
  /\ rm_hung = FALSE
  /\ rm_last = [op |-> "none", existed |-> FALSE, message_set |-> FALSE,
                due_set |-> FALSE, status_set |-> FALSE, emitted |-> 0]

\* the record of a call: what it was given and how many
\* ReminderScheduleChanged events it emitted
RmCall(op, existed, message, due, status, events) ==
  [op |-> op, existed |-> existed, message_set |-> message # <<>>,
   due_set |-> due # <<>>, status_set |-> status # <<>>, emitted |-> events]

\* UPDATE reminders SET ... WHERE id = ?
UpdateRow(rows, id, message, due, status) ==
  IF rows[id].exists
  THEN [rows EXCEPT ![id] =
          [exists |-> TRUE,
           message |-> IF message # <<>> THEN message[1] ELSE @.message,
           due_datetime |-> IF due # <<>> THEN isoformat(due[1]) ELSE @.due_datetime,
           status |-> IF status # <<>> THEN status[1] ELSE @.status]]
  ELSE rows

\* variant: every update announces a schedule change
UpdateEmits_Always(due) == 1

\* update_reminder: if due_datetime is not None: self._emit_schedule_changed()
UpdateEmits(due) == IF due # <<>> THEN 1 ELSE 0

\* delete_reminder: if deleted: self._emit_schedule_changed()
DeleteEmits(deleted) == IF deleted THEN 1 ELSE 0

\* the due texts of the pending rows
PendingDues(rows) ==
  {rows[i].due_datetime : i \in {j \in ReminderIds : rows[j].exists /\ rows[j].status = "pending"}}

\* variant: the query leaves out the status filter
get_next_pending_time_AnyStatus(rows) ==
  LET texts == {rows[i].due_datetime : i \in {j \in ReminderIds : rows[j].exists}}
  IN {fromisoformat(t) : t \in {x \in texts : \A y \in texts : x = y \/ TextLess(x, y)}}

\* get_next_pending_time: SELECT MIN(due_datetime) ... WHERE status = pending,
\* parsed back; no value when the minimum is NULL
get_next_pending_time(rows) ==
  LET texts == PendingDues(rows)
  IN {fromisoformat(t) : t \in {x \in texts : \A y \in texts : x = y \/ TextLess(x, y)}}

\* AppContext: conversation_history = None
InitHistory ==
  /\ ch_held = FALSE /\ ch_messages = <<>> /\ ch_pc = "waiting" /\ ch_count = 0

\* VADProcessor.__init__: self._buffer = []
InitVAD ==
  /\ vp_buffer = <<>> /\ vp_added = 0 /\ vp_scored = <<>>
  /\ vp_last = "none" /\ vp_ret = <<>>

InitLibraries == InitHistory /\ InitReminderManager /\ InitVAD

(***************************************************************************)
(* Initial states                                                          *)
(***************************************************************************)
\* the clock stands still and both reminders are already due
InitFSM ==
  /\ InitMachine /\ InitTimerManager /\ InitMixer /\ InitListener
  /\ InitLibraries
  /\ now = 0
  /\ reminders = [r \in Reminders |-> [status |-> "pending", due |-> 0]]

\* the clock runs and the reminders fall due at any of its ticks
InitSched ==
  /\ InitMachine /\ InitTimerManager /\ InitMixer /\ InitListener
  /\ InitLibraries
  /\ now = 0
  /\ reminders \in [Reminders -> [status : {"pending"}, due : 1..MaxTime]]

\* the timers and the mixer on their own: the machine stands at its start
InitDevices ==
  /\ InitMachine /\ InitTimerManager /\ InitMixer /\ InitListener
  /\ InitLibraries
  /\ now = 0
  /\ reminders = [r \in Reminders |-> [status |-> "pending", due |-> 0]]

SpecAlarm == InitDevices /\ [][NextAlarm]_allVars

SpecTimer == InitDevices /\ [][NextTimer]_allVars

SpecMixer == InitDevices /\ [][NextMixer]_allVars

SpecListener == InitDevices /\ [][NextListener]_allVars

(***************************************************************************)
(* Handler results, as the process() methods compute them                  *)
(***************************************************************************)
\* AppContext.is_in_conversation
is_in_conversation(history) == history # None

\* the history list run_voice_agent and confirm_tool_call return; the
\* handlers test it only against None
HistoryList == "list"

\* a history list that run_voice_agent appended the user turn to and then left
\* without a reply: agent.invoke raised
HalfUpdated == "half"

\* variant: the context loses its history when the agent raises
HistoryAtRaise_Dropped(history) == None

\* run_voice_agent: history.append(HumanMessage(content=query)) on the list the
\* caller passed, before agent.invoke; a None history is replaced by a local
\* list the caller never sees
HistoryAtRaise(history) == IF history = None THEN None ELSE HalfUpdated

\* the list run_voice_agent returns: the one it was passed, with the new turns
HistoryAtReturn(history) == IF history = HalfUpdated THEN HalfUpdated ELSE HistoryList

\* the response ProcessingHandler speaks when the agent raises
Apology == "sorry"

\* WaitingForWakeWordHandler.process, after wait_for_wake_word_and_speech
WaitingResult(is_interrupted, delivery, audio) ==
  IF is_interrupted
  THEN IF delivery # NoDelivery
       THEN StateResult(DELIVERING_REMINDER, DeliveryData(delivery))
       ELSE StateResult(SHUTTING_DOWN, NoData)
  ELSE IF audio = None
       THEN StateResult(WAITING_FOR_WAKE_WORD, NoData)
       ELSE StateResult(LISTENING, ListenData(audio, TRUE))

\* variant: "stop" is the only phrase that ends a conversation
STOP_PHRASES_OnlyStop == {"stop"}

\* listening.py: STOP_PHRASES
STOP_PHRASES == {"stop", "nevermind", "never mind", "cancel", "forget it"}

\* transcription.strip().lower(), on the transcriptions of the model
Normalized(transcription) ==
  IF transcription = "Stop the timer " THEN "stop the timer" ELSE transcription

\* variant: an empty transcription outside a conversation goes on to Speaking
ListeningResult_Speak(transcription, history) ==
  IF transcription = ""
  THEN IF is_in_conversation(history)
       THEN StateResult(LISTENING, ListenData(None, FALSE))
       ELSE StateResult(SPEAKING, ResponseOnlyData("stmt"))
  ELSE IF Normalized(transcription) \in {"stop", "stop the timer"}
       THEN StateResult(WAITING_FOR_WAKE_WORD, NoData)
  ELSE IF is_in_conversation(history) /\ Normalized(transcription) \in STOP_PHRASES
       THEN StateResult(WAITING_FOR_WAKE_WORD, NoData)
  ELSE StateResult(PROCESSING, TranscriptionData(transcription))

\* ListeningHandler.process, after transcription
ListeningResult(transcription, history) ==
  IF transcription = ""
  THEN IF is_in_conversation(history)
       THEN StateResult(LISTENING, ListenData(None, FALSE))
       ELSE StateResult(WAITING_FOR_WAKE_WORD, NoData)
  ELSE IF Normalized(transcription) \in {"stop", "stop the timer"}
       THEN StateResult(WAITING_FOR_WAKE_WORD, NoData)
  ELSE IF is_in_conversation(history) /\ Normalized(transcription) \in STOP_PHRASES
       THEN StateResult(WAITING_FOR_WAKE_WORD, NoData)
  ELSE StateResult(PROCESSING, TranscriptionData(transcription))

\* SpeakingHandler.process, after speak_interruptibly
SpeakingResult(response, force_end, was_interrupted, captured_audio) ==
  IF was_interrupted
  THEN StateResult(LISTENING, ListenData(captured_audio, TRUE))
  ELSE IF force_end
       THEN StateResult(WAITING_FOR_WAKE_WORD, NoData)
  ELSE IF response = "question?"
       THEN StateResult(LISTENING, ListenData(None, FALSE))
  ELSE StateResult(WAITING_FOR_WAKE_WORD, NoData)

\* variant: enter() drops the audio it is handed
ListeningEnterAudio_Drop(data) == None

\* ListeningHandler.enter
ListeningEnterAudio(data) == IF Truthy(data) THEN Get(data, "audio", None) ELSE None
ListeningEnterTrigger(data) ==
  IF Truthy(data) THEN Get(data, "is_wake_word_trigger", FALSE) ELSE FALSE

\* StateMachine.run, the except clauses
RecoverState(kind) ==
  IF kind = "KeyboardInterrupt" THEN SHUTTING_DOWN ELSE WAITING_FOR_WAKE_WORD
\* variant: the except clause leaves the payload in place
RecoverData_Keep(kind, data) == data

RecoverData(kind, data) == IF kind = "KeyboardInterrupt" THEN data ELSE NoData

(***************************************************************************)
(* StateMachine.run                                                        *)
(***************************************************************************)
RunStart ==
  /\ pc = "start"
  /\ running' = TRUE
  /\ pc' = "loop"
  /\ UNCHANGED <<current_state, transition_data, handler, result, exc, stops, stop_pc>>
  /\ UNCHANGED <<hVars, ctxVars, lsnVars, schVars, visitVars>>
  /\ UNCHANGED <<devVars, confirmation>>
  /\ UNCHANGED libVars

\* while self._running and self._current_state != SHUTTING_DOWN
LoopCheck ==
  /\ pc = "loop"
  /\ IF running /\ current_state # SHUTTING_DOWN
     THEN handler' = current_state /\ pc' = "enter"
     ELSE handler' = handler /\ pc' = "finish"
  /\ UNCHANGED <<current_state, running, transition_data, result, exc, stops, stop_pc>>
  /\ UNCHANGED <<hVars, ctxVars, lsnVars, schVars, visitVars>>
  /\ UNCHANGED <<devVars, confirmation>>
  /\ UNCHANGED libVars

RunFinish ==
  /\ pc = "finish"
  /\ running' = FALSE
  /\ pc' = "returned"
  /\ UNCHANGED <<current_state, transition_data, handler, result, exc, stops, stop_pc>>
  /\ UNCHANGED <<hVars, ctxVars, lsnVars, schVars, visitVars>>
  /\ UNCHANGED <<devVars, confirmation>>
  /\ UNCHANGED libVars

\* handler.enter(self.ctx, self._transition_data); self._transition_data = None
Enter ==
  /\ pc = "enter"
  /\ pc' = "process" /\ hpc' = "begin"
  /\ transition_data' = NoData
  /\ exc' = None
  /\ UNCHANGED visitVars
  /\ CASE handler = WAITING_FOR_WAKE_WORD ->
            /\ conversation_history' = None /\ thread_id' = None
            /\ tm_muted' = FALSE
            /\ UNCHANGED <<l_audio, l_trig, p_transcription, s_response, s_force,
                           c_pending, d_delivery>>
       [] handler = LISTENING ->
            /\ l_audio' = ListeningEnterAudio(transition_data)
            /\ l_trig' = ListeningEnterTrigger(transition_data)
            /\ UNCHANGED <<p_transcription, s_response, s_force, c_pending, d_delivery>>
            /\ UNCHANGED ctxVars
       [] handler = PROCESSING ->
            /\ p_transcription' =
                 IF Truthy(transition_data) THEN Get(transition_data, "transcription", "") ELSE ""
            /\ UNCHANGED <<l_audio, l_trig, s_response, s_force, c_pending, d_delivery>>
            /\ UNCHANGED ctxVars
       [] handler = SPEAKING ->
            /\ s_response' =
                 IF Truthy(transition_data) THEN Get(transition_data, "response", "") ELSE ""
            /\ s_force' =
                 IF Truthy(transition_data)
                 THEN Get(transition_data, "force_end_conversation", FALSE) ELSE FALSE
            /\ UNCHANGED <<l_audio, l_trig, p_transcription, c_pending, d_delivery>>
            /\ UNCHANGED ctxVars
       [] handler = AWAITING_CONFIRMATION ->
            /\ c_pending' =
                 IF Truthy(transition_data) THEN Get(transition_data, "pending", None) ELSE None
            /\ UNCHANGED <<l_audio, l_trig, p_transcription, s_response, s_force, d_delivery>>
            /\ UNCHANGED ctxVars
       [] handler = DELIVERING_REMINDER ->
            /\ d_delivery' =
                 IF Truthy(transition_data) THEN Get(transition_data, "delivery", NoDelivery)
                 ELSE NoDelivery
            /\ tm_muted' = TRUE
            /\ UNCHANGED <<l_audio, l_trig, p_transcription, s_response, s_force, c_pending>>
            /\ UNCHANGED <<conversation_history, thread_id>>
  /\ confirmation' =
       IF handler = WAITING_FOR_WAKE_WORD THEN NoConfirmation
       ELSE IF handler = AWAITING_CONFIRMATION /\ c_pending' # None THEN Handed
       ELSE confirmation
  /\ UNCHANGED <<current_state, running, handler, result, stops, stop_pc>>
  /\ UNCHANGED <<w_audio, d_op>>
  /\ UNCHANGED <<lsnVars, schVars>>
  /\ UNCHANGED devVars
  /\ UNCHANGED libVars

\* handler.exit(self.ctx)
Exit ==
  /\ pc = "exit"
  /\ pc' = "set_state"
  /\ CASE handler = LISTENING ->
            /\ l_audio' = None /\ l_trig' = FALSE
            /\ UNCHANGED <<p_transcription, s_response, s_force, c_pending, d_delivery, tm_muted>>
       [] handler = PROCESSING ->
            /\ p_transcription' = ""
            /\ UNCHANGED <<l_audio, l_trig, s_response, s_force, c_pending, d_delivery, tm_muted>>
       [] handler = SPEAKING ->
            /\ s_response' = "" /\ s_force' = FALSE
            /\ UNCHANGED <<l_audio, l_trig, p_transcription, c_pending, d_delivery, tm_muted>>
       [] handler = AWAITING_CONFIRMATION ->
            /\ c_pending' = None
            /\ UNCHANGED <<l_audio, l_trig, p_transcription, s_response, s_force, d_delivery, tm_muted>>
       [] handler = DELIVERING_REMINDER ->
            /\ d_delivery' = NoDelivery /\ tm_muted' = FALSE
            /\ UNCHANGED <<l_audio, l_trig, p_transcription, s_response, s_force, c_pending>>
       [] OTHER ->
            UNCHANGED <<l_audio, l_trig, p_transcription, s_response, s_force, c_pending,
                        d_delivery, tm_muted>>
  /\ UNCHANGED <<current_state, running, transition_data, handler, result, exc, stops, stop_pc>>
  /\ UNCHANGED <<hpc, w_audio, d_op, conversation_history, thread_id>>
  /\ from_interrupt' = IF handler = SPEAKING THEN from_interrupt ELSE None
  /\ listened' = FALSE /\ transcribed' = None /\ wake_seen' = FALSE
  /\ heard_text' = <<>>
  /\ UNCHANGED <<lsnVars, schVars>>
  \* self._pending = None: a resolved confirmation is over
  /\ confirmation' = IF handler = AWAITING_CONFIRMATION /\ confirmation.state = "resolved"
                     THEN NoConfirmation ELSE confirmation
  /\ UNCHANGED devVars
  /\ UNCHANGED libVars

\* self._current_state = result.next_state
SetState ==
  /\ pc = "set_state"
  /\ current_state' = result.next_state
  /\ pc' = "set_data"
  /\ UNCHANGED <<running, transition_data, handler, result, exc, stops, stop_pc>>
  /\ UNCHANGED <<hVars, ctxVars, lsnVars, schVars, visitVars>>
  /\ UNCHANGED <<devVars, confirmation>>
  /\ UNCHANGED libVars

\* self._transition_data = result.data
SetData ==
  /\ pc = "set_data"
  /\ transition_data' = result.data
  /\ result' = NoResult
  /\ pc' = "loop"
  /\ UNCHANGED <<current_state, running, handler, exc, stops, stop_pc>>
  /\ UNCHANGED <<hVars, ctxVars, lsnVars, schVars, visitVars>>
  /\ UNCHANGED <<devVars, confirmation>>
  /\ UNCHANGED libVars

\* enter, process or exit of the current handler raises
HandlerRaises ==
  /\ pc \in {"enter", "process", "exit"}
  /\ \E kind \in ExcKinds : exc' = kind
  /\ pc' = "except"
  /\ UNCHANGED <<current_state, running, transition_data, handler, result, stops, stop_pc>>
  /\ UNCHANGED <<hVars, ctxVars, lsnVars, schVars, visitVars>>
  /\ UNCHANGED <<devVars, confirmation>>
  /\ UNCHANGED libVars

\* except KeyboardInterrupt / except Exception
HandleException ==
  /\ pc = "except"
  /\ current_state' = RecoverState(exc)
  /\ transition_data' = RecoverData(exc, transition_data)
  /\ pc' = "loop"
  /\ from_interrupt' = None
  /\ listened' = FALSE /\ transcribed' = None /\ wake_seen' = FALSE
  /\ heard_text' = <<>>
  \* the handler's fields and locals are dead from here on: every enter()
  \* assigns its fields before process() reads them
  /\ hpc' = "begin" /\ l_audio' = None /\ l_trig' = FALSE
  /\ p_transcription' = "" /\ s_response' = "" /\ s_force' = FALSE
  /\ c_pending' = None /\ d_delivery' = NoDelivery /\ w_audio' = None
  /\ d_op' = NoOp /\ result' = NoResult
  /\ UNCHANGED <<running, handler, exc, stops, stop_pc>>
  /\ UNCHANGED <<ctxVars, lsnVars, schVars>>
  /\ UNCHANGED <<devVars, confirmation>>
  /\ UNCHANGED libVars

\* StateMachine.stop, called from another thread while run() is executing
StopRunning ==
  /\ stop_pc = "idle" /\ stops < MaxStops
  /\ pc \notin {"start", "returned"}
  /\ running' = FALSE
  /\ stop_pc' = "set_state" /\ stops' = stops + 1
  /\ UNCHANGED <<current_state, transition_data, pc, handler, result, exc>>
  /\ UNCHANGED <<hVars, ctxVars, lsnVars, schVars, visitVars>>
  /\ UNCHANGED <<devVars, confirmation>>
  /\ UNCHANGED libVars

StopSetState ==
  /\ stop_pc = "set_state"
  /\ current_state' = SHUTTING_DOWN
  /\ stop_pc' = "idle"
  /\ UNCHANGED <<running, transition_data, pc, handler, result, exc, stops>>
  /\ UNCHANGED <<hVars, ctxVars, lsnVars, schVars, visitVars>>
  /\ UNCHANGED <<devVars, confirmation>>
  /\ UNCHANGED libVars


(***************************************************************************)
(* WaitingForWakeWordHandler.process                                       *)
(***************************************************************************)
\* variant: the scheduler never reports a delivery
has_pending_delivery_Never(pending) == FALSE

\* ReminderScheduler.has_pending_delivery
has_pending_delivery(pending) == pending # NoDelivery

\* if self._scheduler.has_pending_delivery(): ... return DELIVERING_REMINDER
WaitingCheckPending ==
  /\ pc = "process" /\ handler = WAITING_FOR_WAKE_WORD /\ hpc = "begin"
  /\ IF has_pending_delivery(pending_delivery)
     THEN /\ result' = StateResult(DELIVERING_REMINDER, DeliveryData(pending_delivery))
          /\ pc' = "exit" /\ hpc' = hpc
     ELSE /\ hpc' = "call_wait"
          /\ UNCHANGED <<result, pc>>
  /\ UNCHANGED <<current_state, running, transition_data, handler, exc, stops, stop_pc>>
  /\ UNCHANGED <<l_audio, l_trig, p_transcription, s_response, s_force, c_pending,
                 d_delivery, w_audio, d_op>>
  /\ UNCHANGED <<ctxVars, lsnVars, schVars, visitVars>>
  /\ UNCHANGED <<devVars, confirmation>>
  /\ UNCHANGED libVars

\* wait_for_wake_word_and_speech: self._interrupted.clear()
WaitClearInterrupted ==
  /\ pc = "process" /\ handler = WAITING_FOR_WAKE_WORD /\ hpc = "call_wait"
  /\ interrupted' = FALSE
  /\ hpc' = "phase1"
  /\ UNCHANGED smVars
  /\ UNCHANGED <<l_audio, l_trig, p_transcription, s_response, s_force, c_pending,
                 d_delivery, w_audio, d_op>>
  /\ UNCHANGED <<ctxVars, schVars, visitVars>>
  /\ UNCHANGED <<devVars, confirmation>>
  /\ UNCHANGED libVars

\* _wait_for_wake_word: one pass of the loop; a frame that does not score
\* leaves the state as it is
WaitForWakeWord ==
  /\ pc = "process" /\ handler = WAITING_FOR_WAKE_WORD /\ hpc = "phase1"
  /\ IF interrupted
     THEN /\ w_audio' = None /\ hpc' = "post"
          /\ UNCHANGED <<wake_seen, tm_muted>>
     ELSE \/ /\ wake_seen' = TRUE          \* score >= threshold
             /\ tm_muted' = TRUE           \* on_wake_word: timer_manager.mute()
             /\ hpc' = "phase2"
             /\ UNCHANGED w_audio
          \/ /\ w_audio' = None /\ hpc' = "post"   \* audio error, caught
             /\ UNCHANGED <<wake_seen, tm_muted>>
  /\ UNCHANGED smVars
  /\ UNCHANGED <<l_audio, l_trig, p_transcription, s_response, s_force, c_pending,
                 d_delivery, d_op>>
  /\ UNCHANGED <<conversation_history, thread_id, lsnVars, schVars,
                 listened, transcribed, from_interrupt, heard_text>>
  /\ UNCHANGED <<devVars, confirmation>>
  /\ UNCHANGED libVars

\* _record_until_silence: returns on silence or on the interrupt flag
WaitRecordUntilSilence ==
  /\ pc = "process" /\ handler = WAITING_FOR_WAKE_WORD /\ hpc = "phase2"
  /\ \E a \in Audios \cup {None} : w_audio' = a
  /\ hpc' = "post"
  /\ UNCHANGED smVars
  /\ UNCHANGED <<l_audio, l_trig, p_transcription, s_response, s_force, c_pending,
                 d_delivery, d_op>>
  /\ UNCHANGED <<ctxVars, lsnVars, schVars, visitVars>>
  /\ UNCHANGED <<devVars, confirmation>>
  /\ UNCHANGED libVars

WaitingDecide ==
  /\ pc = "process" /\ handler = WAITING_FOR_WAKE_WORD /\ hpc = "post"
  /\ result' = WaitingResult(interrupted, pending_delivery, w_audio)
  /\ pc' = "exit"
  /\ UNCHANGED <<current_state, running, transition_data, handler, exc, stops, stop_pc>>
  /\ w_audio' = None
  /\ UNCHANGED <<hpc, l_audio, l_trig, p_transcription, s_response, s_force, c_pending,
                 d_delivery, d_op>>
  /\ UNCHANGED <<ctxVars, lsnVars, schVars, visitVars>>
  /\ UNCHANGED <<devVars, confirmation>>
  /\ UNCHANGED libVars

(***************************************************************************)
(* ListeningHandler.process                                                *)
(***************************************************************************)
\* if self._audio is None: self._audio = listen_for_speech(...)
ListeningListen ==
  /\ pc = "process" /\ handler = LISTENING /\ hpc = "begin"
  /\ l_audio = None
  /\ listened' = TRUE
  /\ interrupted' = FALSE
  /\ \E a \in Audios \cup {None} :
       /\ l_audio' = a
       /\ IF a = None
          THEN /\ result' = StateResult(WAITING_FOR_WAKE_WORD, NoData)
               /\ pc' = "exit" /\ hpc' = hpc
          ELSE /\ hpc' = "transcribe"
               /\ UNCHANGED <<result, pc>>
  /\ UNCHANGED <<current_state, running, transition_data, handler, exc, stops, stop_pc>>
  /\ UNCHANGED <<l_trig, p_transcription, s_response, s_force, c_pending,
                 d_delivery, w_audio, d_op>>
  /\ UNCHANGED <<ctxVars, schVars, transcribed, wake_seen, from_interrupt, heard_text>>
  /\ UNCHANGED <<devVars, confirmation>>
  /\ UNCHANGED libVars

ListeningTranscribe ==
  /\ pc = "process" /\ handler = LISTENING
  /\ \/ hpc = "transcribe"
     \/ hpc = "begin" /\ l_audio # None
  /\ transcribed' = l_audio
  /\ \E t \in Transcriptions :
       /\ result' = ListeningResult(t, conversation_history)
       /\ heard_text' = <<t>>
       /\ IF Normalized(t) \in {"stop", "stop the timer"}
          THEN stop_any_ringing
          ELSE UNCHANGED tmVars
  /\ UNCHANGED <<mixVars, capVars, confirmation>>
  /\ pc' = "exit"
  /\ UNCHANGED <<current_state, running, transition_data, handler, exc, stops, stop_pc>>
  /\ UNCHANGED <<hVars, ctxVars, lsnVars, schVars, listened, wake_seen, from_interrupt>>
  /\ UNCHANGED libVars

(***************************************************************************)
(* ProcessingHandler.process                                               *)
(***************************************************************************)
ProcessingRun ==
  /\ pc = "process" /\ handler = PROCESSING
  /\ IF p_transcription = ""
     THEN /\ result' = StateResult(WAITING_FOR_WAKE_WORD, NoData)
          /\ UNCHANGED <<conversation_history, thread_id>>
     ELSE \/ \E r \in Replies :          \* plain reply
               /\ result' = StateResult(SPEAKING, ResponseOnlyData(r))
               /\ conversation_history' = HistoryAtReturn(conversation_history)
               /\ thread_id' = "tid"
          \/ /\ result' = StateResult(AWAITING_CONFIRMATION, PendingData("p1"))
             /\ conversation_history' = HistoryAtReturn(conversation_history)
             /\ thread_id' = "tid"
          \/ \* the backend raises: caught, ctx is not assigned, but the list
             \* ctx holds has the user turn appended
             /\ result' = StateResult(SPEAKING, ResponseData(Apology, TRUE))
             /\ conversation_history' = HistoryAtRaise(conversation_history)
             /\ UNCHANGED thread_id
  /\ pc' = "exit"
  /\ UNCHANGED <<current_state, running, transition_data, handler, exc, stops, stop_pc>>
  /\ UNCHANGED <<hVars, tm_muted, lsnVars, schVars, visitVars>>
  /\ UNCHANGED <<devVars, confirmation>>
  /\ UNCHANGED libVars

(***************************************************************************)
(* SpeakingHandler.process                                                 *)
(***************************************************************************)
SpeakingSpeak ==
  /\ pc = "process" /\ handler = SPEAKING
  /\ IF s_response = ""
     THEN /\ result' = StateResult(WAITING_FOR_WAKE_WORD, NoData)
          /\ from_interrupt' = None
     ELSE \E was_interrupted \in BOOLEAN :
          \E captured \in IF was_interrupted THEN Audios \cup {None} ELSE {None} :
            /\ result' = SpeakingResult(s_response, s_force, was_interrupted, captured)
            /\ from_interrupt' = IF was_interrupted THEN captured ELSE None
  /\ pc' = "exit"
  /\ UNCHANGED <<current_state, running, transition_data, handler, exc, stops, stop_pc>>
  /\ UNCHANGED <<hVars, ctxVars, lsnVars, schVars, listened, transcribed, wake_seen,
                 heard_text>>
  /\ UNCHANGED <<devVars, confirmation>>
  /\ UNCHANGED libVars

(***************************************************************************)
(* AwaitingConfirmationHandler.process                                     *)
(***************************************************************************)
\* the phrases of a transcription, in order
CONFIRM_PHRASES == {"yes", "okay"}
REJECT_PHRASES == {"no", "cancel"}
Answers ==
  {<<>>, <<"yes">>, <<"no">>, <<"no", "make it ten">>, <<"okay", "make it ten">>}

\* phrases.is_confirmation: any(phrase in normalized for phrase in CONFIRM_PHRASES)
is_confirmation(text) == \E i \in 1..Len(text) : text[i] \in CONFIRM_PHRASES

\* confirm_tool_call: the text it returns
ConfirmReplies(confirmed) == IF confirmed THEN Replies \ {""} ELSE {"stmt"}

\* what AwaitingConfirmationHandler.process passes to confirm_tool_call after
\* listen_for_speech returned audio and the transcriber returned text
Confirmed(audio, text) == audio # None /\ text # <<>> /\ is_confirmation(text)

ConfirmingProcess ==
  /\ pc = "process" /\ handler = AWAITING_CONFIRMATION
  /\ IF c_pending = None
     THEN /\ result' = StateResult(SPEAKING, ResponseOnlyData("stmt"))
          /\ UNCHANGED <<conversation_history, interrupted, confirmation>>
     ELSE /\ interrupted' = FALSE          \* listen_for_speech
          /\ conversation_history' = HistoryList
          /\ \E audio \in Audios \cup {None} :
             \E text \in IF audio = None THEN {<<>>} ELSE Answers :
               /\ confirmation' = Resolved(Confirmed(audio, text), text)
               /\ \E r \in ConfirmReplies(Confirmed(audio, text)) :
                    result' = StateResult(SPEAKING, ResponseData(r, TRUE))
  /\ pc' = "exit"
  /\ UNCHANGED <<current_state, running, transition_data, handler, exc, stops, stop_pc>>
  /\ UNCHANGED <<hVars, thread_id, tm_muted, schVars, visitVars>>
  /\ UNCHANGED devVars
  /\ UNCHANGED libVars

(***************************************************************************)
(* DeliveringReminderHandler.process                                       *)
(***************************************************************************)
\* the resolution the response selects; "spoken" resolutions answer with
\* speak_text(response, self._voice)
\* what the user answers: nothing (listen_for_speech returns None), audio with
\* an empty transcription, or a text, of which the handler uses the number of
\* minutes _parse_snooze_duration finds in it (<<>> when no pattern matches),
\* whether _is_confirmation holds and whether _is_rejection or "later" holds
NoAnswer == [heard |-> "none", snooze |-> <<>>, confirm |-> FALSE, reject |-> FALSE]
EmptyAnswer == [heard |-> "empty", snooze |-> <<>>, confirm |-> FALSE, reject |-> FALSE]
Responses ==
  {NoAnswer, EmptyAnswer}
  \cup [heard : {"text"}, snooze : {<<>>} \cup {<<m>> : m \in 0..MaxSnooze}, confirm : BOOLEAN,
        reject : BOOLEAN]

\* if snooze_minutes:
SnoozeRequested(minutes) == minutes # <<>> /\ minutes[1] # 0

\* the branch of process() a response takes
ReminderOp(r) ==
  IF r.heard # "text"
  THEN [op |-> "retry", minutes |-> RetryTicks, spoken |-> FALSE, response |-> r]
  ELSE IF SnoozeRequested(r.snooze)
  THEN [op |-> "snooze", minutes |-> r.snooze[1], spoken |-> TRUE, response |-> r]
  ELSE IF r.confirm
  THEN [op |-> "mark_delivered", minutes |-> 0, spoken |-> TRUE, response |-> r]
  ELSE IF r.reject
  THEN [op |-> "retry", minutes |-> RetryTicks, spoken |-> TRUE, response |-> r]
  ELSE [op |-> "retry", minutes |-> RetryTicks, spoken |-> FALSE, response |-> r]

DeliveryOps == {ReminderOp(r) : r \in Responses}

DeliveringAnnounce ==
  /\ pc = "process" /\ handler = DELIVERING_REMINDER /\ hpc = "begin"
  /\ IF d_delivery = NoDelivery
     THEN /\ result' = StateResult(WAITING_FOR_WAKE_WORD, NoData)
          /\ pc' = "exit"
          /\ UNCHANGED <<hpc, d_op, interrupted>>
     ELSE /\ interrupted' = FALSE          \* listen_for_speech
          /\ \E o \in DeliveryOps : d_op' = o
          /\ hpc' = "store"
          /\ UNCHANGED <<result, pc>>
  /\ UNCHANGED <<current_state, running, transition_data, handler, exc, stops, stop_pc>>
  /\ UNCHANGED <<l_audio, l_trig, p_transcription, s_response, s_force, c_pending,
                 d_delivery, w_audio>>
  /\ UNCHANGED <<ctxVars, schVars, visitVars>>
  /\ UNCHANGED <<devVars, confirmation>>
  /\ UNCHANGED libVars

\* schedule_retry and snooze_reminder update the due time, for which the
\* ReminderManager emits ReminderScheduleChanged and _on_schedule_changed sets
\* the wake event; mark_delivered goes through clear_reminder, which emits
\* nothing
EmitsScheduleChanged(o) == o.op # "mark_delivered"

\* variant: a retry or a snooze leaves the due time where it was
ResolveStore_KeepDue(store, id, o, clock) ==
  IF o.op = "mark_delivered"
  THEN [store EXCEPT ![id].status = "cleared"]
  ELSE [store EXCEPT ![id].status = "pending"]

\* mark_delivered / schedule_retry / snooze_reminder: the store update
ResolveStore(store, id, o, clock) ==
  IF store[id].status = "deleted"
  THEN store                \* UPDATE ... WHERE id = ? matches no row
  ELSE IF o.op = "mark_delivered"
  THEN [store EXCEPT ![id].status = "cleared"]
  ELSE IF o.op = "snooze"
  THEN [store EXCEPT ![id] = [status |-> "pending", due |-> clock + o.minutes]]
  ELSE [store EXCEPT ![id].due = clock + o.minutes]

DeliveringResolve ==
  /\ pc = "process" /\ handler = DELIVERING_REMINDER /\ hpc = "store"
  /\ reminders' = ResolveStore(reminders, d_delivery, d_op, now)
  /\ wake_event' = (wake_event \/ EmitsScheduleChanged(d_op))
  /\ hpc' = "clear"
  /\ UNCHANGED smVars
  /\ UNCHANGED <<l_audio, l_trig, p_transcription, s_response, s_force, c_pending,
                 d_delivery, w_audio, d_op>>
  /\ UNCHANGED <<ctxVars, lsnVars, spc, pending_delivery, now, s_due, visitVars>>
  /\ UNCHANGED <<devVars, confirmation>>
  /\ UNCHANGED libVars

\* clear_pending_delivery, then the spoken answer: speak_text is called
\* without its audio_manager argument and raises TypeError
DeliveringClear ==
  /\ pc = "process" /\ handler = DELIVERING_REMINDER /\ hpc = "clear"
  /\ pending_delivery' = NoDelivery
  /\ IF d_op.spoken
     THEN /\ exc' = "Exception" /\ pc' = "except"
          /\ UNCHANGED result
     ELSE /\ result' = StateResult(WAITING_FOR_WAKE_WORD, NoData)
          /\ pc' = "exit"
          /\ UNCHANGED exc
  /\ d_op' = NoOp
  /\ UNCHANGED <<current_state, running, transition_data, handler, stops, stop_pc>>
  /\ UNCHANGED <<hpc, l_audio, l_trig, p_transcription, s_response, s_force, c_pending,
                 d_delivery, w_audio>>
  /\ UNCHANGED <<ctxVars, lsnVars, spc, reminders, now, s_due, wake_event, visitVars>>
  /\ UNCHANGED <<devVars, confirmation>>
  /\ UNCHANGED libVars

(***************************************************************************)
(* ReminderScheduler thread                                                *)
(***************************************************************************)
\* variant: the due-check runs although a delivery is outstanding
CheckSuppressed_Never(pending) == FALSE

\* _check_due_reminders: if self.has_pending_delivery(): return
CheckSuppressed(pending) == pending # NoDelivery

\* ReminderManager.get_due_reminders: pending, due, ordered by due time
DueReminders(store, clock) ==
  {r \in Reminders : store[r].status = "pending" /\ store[r].due <= clock}
FirstDue(store, clock) ==
  {r \in DueReminders(store, clock) :
     \A q \in DueReminders(store, clock) : store[r].due <= store[q].due}

\* the times of the pending reminders
PendingTimes(store) == {store[r].due : r \in {q \in Reminders : store[q].status = "pending"}}

\* _calculate_next_wake_time: the earliest of them, at the start of its
\* minute (the clock of the model counts whole minutes); no time when no
\* reminder is pending
NextWakeTime(store) ==
  {t \in PendingTimes(store) : \A u \in PendingTimes(store) : t <= u}

\* next_wake is not None and sleep_seconds <= 0
AlreadyDue(store, clock) == \E t \in NextWakeTime(store) : t - clock <= 0

\* _scheduler_loop: the check on startup, and one pass of the loop: the check
\* of the branch "already due", or self._wake_event.clear() and the check
\* that follows it
SchedCheckDue ==
  /\ spc \in {"startup", "loop"}
  /\ spc' = IF CheckSuppressed(pending_delivery) THEN "loop" ELSE "query"
  /\ wake_event' = IF spc = "loop" /\ ~AlreadyDue(reminders, now) THEN FALSE ELSE wake_event
  /\ UNCHANGED <<pending_delivery, reminders, now, s_due>>
  /\ UNCHANGED <<smVars, hVars, ctxVars, lsnVars, visitVars>>
  /\ UNCHANGED <<devVars, confirmation>>
  /\ UNCHANGED libVars

SchedQueryDue ==
  /\ spc = "query"
  /\ IF DueReminders(reminders, now) = {}
     THEN spc' = "loop" /\ UNCHANGED s_due
     ELSE \E r \in FirstDue(reminders, now) : s_due' = r /\ spc' = "trigger"
  /\ UNCHANGED <<pending_delivery, reminders, now, wake_event>>
  /\ UNCHANGED <<smVars, hVars, ctxVars, lsnVars, visitVars>>
  /\ UNCHANGED <<devVars, confirmation>>
  /\ UNCHANGED libVars

\* _trigger_delivery, under the delivery lock
SchedTriggerDelivery ==
  /\ spc = "trigger"
  /\ pending_delivery' = s_due
  /\ spc' = "callback"
  /\ UNCHANGED <<reminders, now, s_due, wake_event>>
  /\ UNCHANGED <<smVars, hVars, ctxVars, lsnVars, visitVars>>
  /\ UNCHANGED <<devVars, confirmation>>
  /\ UNCHANGED libVars

\* the reminder-due callback interrupts the listener
on_reminder_due == TRUE

SchedCallback ==
  /\ spc = "callback"
  /\ interrupted' = on_reminder_due
  /\ spc' = "loop" /\ s_due' = NoDelivery
  /\ UNCHANGED <<pending_delivery, reminders, now, wake_event>>
  /\ UNCHANGED <<smVars, hVars, ctxVars, visitVars>>
  /\ UNCHANGED <<devVars, confirmation>>
  /\ UNCHANGED libVars

\* the wall clock
Tick ==
  /\ now < MaxTime
  /\ now' = now + 1
  /\ UNCHANGED <<spc, pending_delivery, reminders, s_due, wake_event>>
  /\ UNCHANGED <<smVars, hVars, ctxVars, lsnVars, visitVars>>
  /\ UNCHANGED <<devVars, confirmation>>
  /\ UNCHANGED libVars

\* WakeWordListener.stop / interrupt, called on shutdown
ListenerInterrupt ==
  /\ pc \notin {"start", "returned"}
  /\ ~interrupted
  /\ interrupted' = TRUE
  /\ UNCHANGED <<smVars, hVars, ctxVars, schVars, visitVars>>
  /\ UNCHANGED <<devVars, confirmation>>
  /\ UNCHANGED libVars


(***************************************************************************)
(* The conversation state machine with the listener and the scheduler      *)
(***************************************************************************)
NextFSM ==
  \/ RunStart \/ LoopCheck \/ RunFinish \/ Enter \/ Exit \/ SetState \/ SetData
  \/ HandlerRaises \/ HandleException \/ StopRunning \/ StopSetState
  \/ WaitingCheckPending \/ WaitClearInterrupted \/ WaitForWakeWord
  \/ WaitRecordUntilSilence \/ WaitingDecide
  \/ ListeningListen \/ ListeningTranscribe
  \/ ProcessingRun \/ SpeakingSpeak \/ ConfirmingProcess
  \/ DeliveringAnnounce \/ DeliveringResolve \/ DeliveringClear
  \/ SchedCheckDue \/ SchedQueryDue \/ SchedTriggerDelivery \/ SchedCallback
  \/ ListenerInterrupt

SpecFSM == InitFSM /\ [][NextFSM]_allVars

(***************************************************************************)
(* The scheduler against the running machine, with the clock               *)
(***************************************************************************)
NextSched ==
  \/ RunStart \/ LoopCheck \/ Enter \/ Exit \/ SetState \/ SetData
  \/ HandleException
  \/ WaitingCheckPending \/ WaitClearInterrupted \/ WaitForWakeWord
  \/ WaitRecordUntilSilence \/ WaitingDecide
  \/ ListeningListen \/ ListeningTranscribe
  \/ ProcessingRun \/ SpeakingSpeak \/ ConfirmingProcess
  \/ DeliveringAnnounce \/ DeliveringResolve \/ DeliveringClear
  \/ SchedCheckDue \/ SchedQueryDue \/ SchedTriggerDelivery \/ SchedCallback
  \/ Tick

SpecSched == InitSched /\ [][NextSched]_allVars

(***************************************************************************)
(* The agent's reminder tools, called on the reminder that is the pending  *)
(* delivery while a conversation is in Processing                          *)
(***************************************************************************)
\* the update_reminder tool with a new time, and the delete_reminder tool
ToolStore(store, id, tool, clock) ==
  IF tool = "delete_reminder"
  THEN [store EXCEPT ![id] = [status |-> "deleted", due |-> 0]]
  ELSE IF store[id].status = "deleted"
  THEN store
  ELSE [store EXCEPT ![id].due = clock + 1]

\* run_voice_agent runs a reminder tool; the ReminderManager emits
\* ReminderScheduleChanged and _on_schedule_changed sets the wake event
ReminderTool ==
  /\ pc = "process" /\ handler = PROCESSING
  /\ pending_delivery # NoDelivery
  /\ reminders[pending_delivery].status # "deleted"
  /\ \E tool \in {"update_reminder", "delete_reminder"} :
       reminders' = ToolStore(reminders, pending_delivery, tool, now)
  /\ wake_event' = TRUE
  /\ UNCHANGED <<spc, pending_delivery, now, s_due>>
  /\ UNCHANGED <<smVars, hVars, ctxVars, lsnVars, visitVars>>
  /\ UNCHANGED <<devVars, confirmation>>
  /\ UNCHANGED libVars

NextTools == NextSched \/ ReminderTool

SpecTools == InitSched /\ [][NextTools]_allVars

(***************************************************************************)
(* Properties of the state machine driver                                  *)
(***************************************************************************)
\* the transition table as specified
SpecTable(h) ==
  CASE h = WAITING_FOR_WAKE_WORD -> {LISTENING, DELIVERING_REMINDER}
    [] h = LISTENING -> {PROCESSING, WAITING_FOR_WAKE_WORD}
    [] h = PROCESSING -> {SPEAKING, AWAITING_CONFIRMATION}
    [] h = SPEAKING -> {LISTENING, WAITING_FOR_WAKE_WORD}
    [] h = AWAITING_CONFIRMATION -> {SPEAKING, PROCESSING}
    [] h = DELIVERING_REMINDER -> {WAITING_FOR_WAKE_WORD}
    [] OTHER -> {}

\* the table with the further results the handlers return: Waiting stays
\* in place when no audio was captured and shuts down when the listener was
\* interrupted with no delivery pending; Listening stays in place on an
\* empty transcription inside a conversation
CodeTable(h) ==
  SpecTable(h) \cup
  CASE h = WAITING_FOR_WAKE_WORD -> {WAITING_FOR_WAKE_WORD, SHUTTING_DOWN}
    [] h = LISTENING -> {LISTENING}
    [] OTHER -> {}

HandlerReturned == pc # "exit" /\ pc' = "exit"

C2_Recovery ==
  [][/\ (pc = "except" /\ pc' # "except" /\ exc = "Exception") =>
          /\ current_state' = WAITING_FOR_WAKE_WORD
          /\ transition_data' = NoData
          /\ pc' = "loop"
     /\ (pc = "loop" /\ pc' = "enter" /\ exc = "Exception") =>
          /\ handler' = WAITING_FOR_WAKE_WORD
          /\ transition_data = NoData]_allVars

\* run() has recovered from an Exception raised in Speaking and is in
\* Waiting's handler again
C2_Witness ==
  /\ pc = "enter" /\ exc = "Exception" /\ handler = WAITING_FOR_WAKE_WORD
  /\ transition_data = NoData /\ running

\* C3: once stop() has completed, run() returns with current_state
\* SHUTTING_DOWN
C3_StopWins ==
  (pc = "returned" /\ stops > 0 /\ stop_pc = "idle") => current_state = SHUTTING_DOWN

C5_OnePending ==
  [][/\ (pending_delivery # NoDelivery /\ pending_delivery' # pending_delivery) =>
          /\ pending_delivery' = NoDelivery
          /\ pc = "process" /\ handler = DELIVERING_REMINDER /\ hpc = "clear"
     /\ (pending_delivery # NoDelivery /\ spc \in {"startup", "loop"}) =>
          spc' \in {spc, "loop"}
     /\ (pending_delivery = NoDelivery /\ pending_delivery' # NoDelivery) =>
          /\ spc = "trigger"
          /\ pending_delivery' \in DueReminders(reminders, now)
     /\ \A r \in Reminders :
          (/\ pending_delivery # NoDelivery /\ r # pending_delivery
           /\ r \in DueReminders(reminders, now))
          => r \in DueReminders(reminders', now')]_allVars

\* the second of two due reminders is pending after the first was cleared
C5_Witness ==
  \E r \in Reminders : \E q \in Reminders \ {r} :
    /\ pending_delivery = r
    /\ reminders[q].status = "cleared"
    /\ reminders[q].due <= reminders[r].due

\* C7: Speaking interrupted with captured audio returns Listening carrying
\* that audio, and Listening transcribes it without calling
\* listen_for_speech
C7_InterruptAudio ==
  from_interrupt \notin {None, "empty"} =>
    /\ (pc = "exit" /\ handler = SPEAKING) =>
          /\ result.next_state = LISTENING
          /\ Get(result.data, "audio", None) = from_interrupt
    /\ (pc \in {"process", "exit"} /\ handler = LISTENING) =>
          /\ ~listened
          /\ l_audio = from_interrupt
          /\ pc = "exit" => transcribed = from_interrupt

C7_Witness ==
  /\ pc = "exit" /\ handler = LISTENING
  /\ from_interrupt = "a2" /\ transcribed = "a2" /\ ~listened

\* C6: a timer is RINGING only once its own countdown has expired, so a
\* timer that set_timer replaced stays PENDING until the new countdown runs
\* out
C6_RingsOnOwnExpiry ==
  \A n \in Names :
    timers[n].state = "RINGING" => threads[timers[n].thread] \in {"ring", "done"}

\* C8 (as stated): queue_audio_blocking, called while the mixer is not muted,
\* returns False only after the callback has played the call's clip in full
\* and then consumed the call's completion marker
C8_FalseAfterFullPlayback ==
  bpc = "ret_false" => (b_clip # 0 /\ b_clip \in played)

\* C9 (as stated): the callback copies loop samples into the output buffer
\* only while the one-shot queue holds no clip
C9_LoopOnlyWhenQueueEmpty ==
  [][(cb_pc = "fill" /\ current_output.src = "loop" /\ output_pos' > output_pos)
       => ~HasClip(output_queue)]_allVars

\* every sample of a clip, in order
AllSamples(c) == [i \in 1..c.len |-> Sample(c, i)]

\* the queued clips laid end to end
RECURSIVE Concatenated(_)
Concatenated(q) ==
  IF q = <<>> THEN <<>> ELSE AllSamples(Head(q)) \o Concatenated(Tail(q))

\* C10: with no stop and no mute so far, the one-shot samples the callbacks
\* have emitted are the queued clips laid end to end, up to the read position
\* of the clip in progress, and all of them once nothing one-shot is pending
C10_InQueueOrder ==
  ~disturbed =>
    /\ Len(emitted) <= Len(Concatenated(queued))
    /\ emitted = SubSeq(Concatenated(queued), 1, Len(emitted))
    /\ (current_output.src = "clip" =>
          /\ output_position <= Len(emitted)
          /\ SubSeq(emitted, Len(emitted) - output_position + 1, Len(emitted))
               = SubSeq(AllSamples(current_output), 1, output_position))
    /\ (~HasClip(output_queue) /\ current_output.src # "clip"
          => emitted = Concatenated(queued))

\* a clip longer than the callback buffer and the clip queued behind it have
\* both been emitted
C10_Witness ==
  /\ ~disturbed
  /\ Len(queued) = 2
  /\ queued[1].len > Frames
  /\ emitted = Concatenated(queued)

\* C11 (as stated): once mute() has returned and a callback has begun, and
\* until unmute(), the callback copies no sample into the output buffer and
\* no clip is put on the one-shot queue
C11_SilentWhileMuted ==
  [][silenced =>
       /\ ~(cb_pc = "fill" /\ current_output # NoAudio /\ output_pos' > output_pos)
       /\ ~HasClip(output_queue')]_allVars

\* C12 (as stated): stop_timer() with no name while no timer is RINGING
\* returns "no timer is currently ringing", stop_timer(name) for a name not
\* in the table returns "not found", and neither changes any timer
C12_StopTimerNoOp ==
  [][tm_last'.op = "stop_timer" =>
       /\ (tm_last'.arg = None /\ \A n \in Names : timers[n].state # "RINGING") =>
            /\ tm_last'.result = "no_ringing"
            /\ timers' = timers /\ threads' = threads
       /\ (tm_last'.arg # None /\ timers[tm_last'.arg].state = "absent") =>
            /\ tm_last'.result = "not_found"
            /\ timers' = timers /\ threads' = threads]_allVars

\* what may have happened to one Timer object so far
LogInOrder(l) ==
  \/ l = <<>>
  \/ l = << <<"cancelled", 0>> >>
  \/ \E t \in ThreadIds :
       \/ l = << <<"RINGING", t>> >>
       \/ l = << <<"RINGING", t>>, <<"TimerFired", t>>, <<"alarm", t>> >>

\* C13: the callback of a timer's own countdown, run while the timer is
\* PENDING, makes it RINGING; every timer that became RINGING gets one
\* TimerFired and then its alarm, in that order; a timer that stop_timer
\* cancelled is never RINGING and gets no TimerFired
C13_FiredOnce ==
  [][/\ \A t \in ThreadIds :
          (/\ threads[t] = "fired" /\ threads'[t] # "fired"
           /\ timers[thread_name[t]].state = "PENDING"
           /\ timers[thread_name[t]].thread = t)
          => /\ timers'[thread_name[t]].state = "RINGING"
             /\ tm_log'[t] = << <<"RINGING", t>> >>
     /\ \A i \in ThreadIds : LogInOrder(tm_log'[i])
     /\ \A i \in ThreadIds :
          (threads[i] = "ring" /\ threads'[i] = "done") =>
            \E k \in ThreadIds :
               tm_log'[k] = << <<"RINGING", i>>, <<"TimerFired", i>>, <<"alarm", i>> >>]_allVars

\* one timer has rung with its event and its alarm, and the expiry of
\* another was processed after stop_timer had cancelled it
C13_Witness ==
  \E i \in ThreadIds : \E j \in ThreadIds :
    /\ tm_log[i] = << <<"RINGING", i>>, <<"TimerFired", i>>, <<"alarm", i>> >>
    /\ tm_log[j] = << <<"cancelled", 0>> >>
    /\ threads[j] = "done"

\* C14: a capture (_record_until_silence of the listener, _capture_until_silence
\* of the monitor) ends by end-pointing only if a voice-activity window of that
\* capture was above 0.5 and the time since the most recent such window
\* exceeds silence_duration; silence before the first speech window, however
\* long, does not end it.
C14_EndPointAfterSpeech ==
  (lpc = "returned" /\ ret.how = "endpoint") =>
     /\ speech_at # NoTime
     /\ (cap_time - speech_at) > SilenceFrames

\* the frames a capture has read since its trigger
FramesCaptured == (Len(audio_chunks) - Len(trigger_ring)) \div CHUNK

\* a capture has been end-pointed after a silence longer than silence_duration
\* that came before its first speech window
C14_Witness ==
  /\ lpc = "returned" /\ ret.how = "endpoint"
  /\ first_speech_at - (cap_time - FramesCaptured) > SilenceFrames + 1

\* C15: every listen_for_speech returns while the microphone keeps delivering
\* frames: None when no window is above 0.5 before the timeout, and otherwise
\* the captured audio once a silence of silence_duration has followed the
\* speech that started the capture, whatever the voice-activity
\* probabilities are.
C15_ListenReturns ==
  /\ ~overdue
  /\ (call = "listen" /\ lpc = "returned" /\ ret.how = "timeout") => heard_at = NoTime

\* consecutive samples of the microphone, none dropped, none twice
InOrder(a) == \A i \in 1..(Len(a) - 1) : a[i + 1] = a[i] + 1

\* the most recent samples of the call when sample last has just been read,
\* at most the capacity of the ring buffer
MostRecent(a, last) ==
  /\ InOrder(a)
  /\ Len(a) = IF last - first_sample + 1 < BufferSamples
              THEN last - first_sample + 1 ELSE BufferSamples
  /\ a # <<>> => a[Len(a)] = last

\* C16: on a wake trigger the audio wait_for_wake_word_and_speech returns is the
\* ring buffer as it stood at the trigger (the most recent samples of the call,
\* at most its capacity, frames before the trigger frame included) followed by
\* every frame read after the trigger, in order, none dropped or doubled; the
\* ring buffer never exceeds its capacity, loses its oldest samples first and
\* is empty when a call starts.
C16_PreRollThenFrames ==
  /\ Len(ring_buffer) <= BufferSamples
  /\ (call = "wake" /\ lpc \in {"wake_loop", "wake_read"}) => MostRecent(ring_buffer, mic)
  /\ (call = "wake" /\ lpc = "returned" /\ ret.kind = "audio") =>
       /\ InOrder(ret.samples)
       /\ ret.samples[Len(ret.samples)] = mic
       /\ SubSeq(ret.samples, 1, Len(trigger_ring)) = trigger_ring
       /\ MostRecent(trigger_ring, mic - FramesCaptured * CHUNK)

\* a second call has returned the audio of a trigger that came after the ring
\* buffer had lost samples, with frames read after the trigger
C16_Witness ==
  /\ call = "wake" /\ lpc = "returned" /\ ret.kind = "audio" /\ calls = 2
  /\ first_sample > 1
  /\ Len(trigger_ring) = BufferSamples /\ trigger_ring[1] > first_sample
  /\ FramesCaptured >= 2

\* the listener thread is inside stream.read
Reading == lpc \in {"wake_read", "speech_read", "record_read"}

\* C17: stop() and interrupt() of the listener may be called any number of
\* times from another thread: a repeated call changes nothing more, the blocked
\* loop returns after at most the frame it is reading, and neither call closes
\* the input stream while the blocked thread is still reading from it.
C17_StreamOpenWhileReading ==
  /\ StreamAfterStop(StreamAfterStop(stream)) = StreamAfterStop(stream)
  /\ ~(Reading /\ stream = "closed")

\* C18: when the backend raises during Processing the next state is Speaking
\* with the canned apology and a forced end, after which the machine returns to
\* WaitingForWakeWord (history and thread id reset); no Listening or Processing
\* step of that conversation runs on a history left half-updated.
C18_ErrorEndsConversation ==
  /\ (handler = PROCESSING /\ pc = "exit" /\ result.data = ResponseData(Apology, TRUE)) =>
       result.next_state = SPEAKING
  /\ (handler = SPEAKING /\ pc = "exit" /\ s_response = Apology /\ s_force) =>
       result.next_state = WAITING_FOR_WAKE_WORD
  /\ ~(/\ handler \in {LISTENING, PROCESSING} /\ pc = "process"
       /\ conversation_history = HalfUpdated)

\* a transcription that is one confirm phrase, or one reject phrase, and
\* nothing else
PureAnswer(text) == Len(text) = 1 /\ text[1] \in CONFIRM_PHRASES \cup REJECT_PHRASES

\* C19: in AwaitingConfirmation a transcribed response that is neither a pure
\* affirmative nor a pure negative is a modification request: the pending
\* action is not executed and the next state is Processing with that response
\* text as the new user turn.
C19_ModificationGoesToProcessing ==
  (/\ handler = AWAITING_CONFIRMATION /\ pc = "exit"
   /\ confirmation.state = "resolved"
   /\ confirmation.said # <<>> /\ ~PureAnswer(confirmation.said)) =>
     /\ ~confirmation.confirmed
     /\ result.next_state = PROCESSING
     /\ result.data.kind = "transcription"
     /\ result.data.transcription = confirmation.said

\* C20: every PendingConfirmation handed to AwaitingConfirmation is resolved
\* exactly once, by one confirm call with confirmed true or false, before the
\* machine next enters WaitingForWakeWord; a listening timeout or an empty
\* transcription resolves it as rejected; it is never resolved twice and never
\* left unresolved.
C20_ResolvedOnce ==
  [][/\ (pc = "enter" /\ handler = WAITING_FOR_WAKE_WORD /\ pc' = "process") =>
          confirmation.state # "handed"
     /\ (confirmation.state = "handed" /\ confirmation'.state = "resolved"
         /\ confirmation'.said = <<>>) => ~confirmation'.confirmed
     /\ confirmation.state = "resolved" =>
          confirmation' \in {confirmation, NoConfirmation, Handed}]_allVars

\* the operation the precedence "explicit snooze duration, acknowledgement,
\* rejection or later, unclear" gives a response
ClaimedOp(r) ==
  IF r.heard # "text" THEN "retry"
  ELSE IF r.snooze # <<>> THEN "snooze"
  ELSE IF r.confirm THEN "mark_delivered"
  ELSE "retry"

\* C21: in DeliveringReminder the response is classified in the precedence
\* explicit snooze duration, acknowledgement, rejection or 'later', unclear,
\* invoking snooze_reminder, mark_delivered, schedule_retry, schedule_retry; no
\* response or an empty transcription invokes schedule_retry; one operation
\* is invoked per delivery, after which no delivery is pending and the next
\* state is WaitingForWakeWord.
C21_ClassifiedInPrecedence ==
  [][/\ (handler = DELIVERING_REMINDER /\ hpc = "begin" /\ hpc' = "store") =>
          /\ d_op'.op = ClaimedOp(d_op'.response)
          /\ d_op'.op = "snooze" => d_op'.minutes = d_op'.response.snooze[1]
     /\ (handler = DELIVERING_REMINDER /\ pc = "process" /\ hpc = "clear" /\ pc' # pc) =>
          /\ pending_delivery' = NoDelivery
          /\ pc' = "exit" => result'.next_state = WAITING_FOR_WAKE_WORD
          /\ pc' = "except" => RecoverState(exc') = WAITING_FOR_WAKE_WORD]_allVars

\* the machine waits for the wake word and none has been detected
IdleWaiting ==
  /\ handler = WAITING_FOR_WAKE_WORD /\ pc = "process"
  /\ hpc \in {"begin", "call_wait", "phase1"}

\* C22: timer alarm audio is muted from entry to DeliveringReminder, and from
\* wake-word detection in a conversation turn, until the turn ends, and is
\* unmuted on every path out (normal return, handler exception, shutdown): the
\* timer manager is never muted while the machine is idle in
\* WaitingForWakeWord or once run() has returned in ShuttingDown.
C22_NeverLeftMuted ==
  /\ IdleWaiting => ~tm_muted
  /\ (pc = "returned" /\ current_state = SHUTTING_DOWN) => ~tm_muted

\* C23: every entry to WaitingForWakeWord resets the conversation history and
\* the thread id to none and unmutes the timer alarms; when a reminder
\* delivery is pending as the handler starts processing, the next state is
\* DeliveringReminder carrying that delivery, and the wake detector is not
\* invoked.
C23_ResetAndPendingFirst ==
  [][/\ (handler = WAITING_FOR_WAKE_WORD /\ pc = "enter" /\ pc' = "process") =>
          /\ conversation_history' = None /\ thread_id' = None
          /\ ~tm_muted'
     /\ (/\ handler = WAITING_FOR_WAKE_WORD /\ pc = "process" /\ hpc = "begin"
         /\ pending_delivery # NoDelivery
         /\ pc' # "except" /\ <<pc, hpc>>' # <<pc, hpc>>) =>
          /\ pc' = "exit" /\ hpc' = "begin"
          /\ result'.next_state = DELIVERING_REMINDER
          /\ result'.data = DeliveryData(pending_delivery)
          /\ UNCHANGED <<wake_seen, interrupted, pending_delivery>>]_allVars

\* a pending delivery was found by the check at the start of process()
C23_Witness ==
  /\ handler = WAITING_FOR_WAKE_WORD /\ pc = "exit" /\ hpc = "begin"
  /\ result.next_state = DELIVERING_REMINDER
  /\ result.data = DeliveryData(pending_delivery)
  /\ conversation_history = None /\ ~tm_muted

(***************************************************************************)
(* The conversation history: run_voice_agent, confirm_tool_call and the    *)
(* handlers that store their result in ctx.conversation_history            *)
(***************************************************************************)
\* a message of the conversation, numbered in the order of creation
Message(k, kind) == [n |-> k, kind |-> kind, interrupted |-> FALSE]

\* history[-MAX_HISTORY_MESSAGES:] when the list is longer than the cap
Trim(history) ==
  IF Len(history) > MAX_HISTORY_MESSAGES
  THEN SubSeq(history, Len(history) - MAX_HISTORY_MESSAGES + 1, Len(history))
  ELSE history

\* run_voice_agent returning a text: the user message and the reply are
\* appended and the list is trimmed
AfterText(history, k) ==
  Trim(history \o <<Message(k + 1, "human"), Message(k + 2, "ai")>>)

\* run_voice_agent returning a PendingConfirmation: the list with the user
\* message appended, as it is
AfterPending(history, k) == Append(history, Message(k + 1, "human"))

\* confirm_tool_call: the messages of the agent state, which are those sent
\* to it, the tool call and what followed it (the tool result and the reply
\* when confirmed, the cancellation when not), trimmed
AfterConfirm(history, k, confirmed) ==
  Trim(history \o
       (IF confirmed
        THEN <<Message(k + 1, "ai"), Message(k + 2, "tool"), Message(k + 3, "ai")>>
        ELSE <<Message(k + 1, "ai"), Message(k + 2, "tool")>>))

\* SpeakingHandler.process: the last message, when it is the agent's, is
\* replaced by one that says it was interrupted
MarkInterrupted(history) ==
  IF history # <<>> /\ history[Len(history)].kind = "ai"
  THEN [history EXCEPT ![Len(history)].interrupted = TRUE]
  ELSE history

\* WaitingForWakeWordHandler.process returns LISTENING
HistWake ==
  /\ ch_pc = "waiting"
  /\ ch_pc' = "listening"
  /\ UNCHANGED <<ch_held, ch_messages, ch_count>>
  /\ UNCHANGED <<rmVars, vadVars, fsmVars, devVars>>

\* ListeningHandler.process: the transcription goes to Processing, or the
\* turn ends
HistListen ==
  /\ ch_pc = "listening"
  /\ ch_pc' \in {"processing", "entering"}
  /\ UNCHANGED <<ch_held, ch_messages, ch_count>>
  /\ UNCHANGED <<rmVars, vadVars, fsmVars, devVars>>

\* ProcessingHandler.process: run_voice_agent returns a text or a
\* PendingConfirmation, or raises after appending the user message to the
\* list it was given
HistRunVoiceAgent ==
  /\ ch_pc = "processing"
  /\ ch_count + 2 <= MaxMessages
  /\ \/ /\ ch_messages' = AfterText(ch_messages, ch_count)
        /\ ch_count' = ch_count + 2
        /\ ch_held' = TRUE
        /\ ch_pc' = "speaking"
     \/ /\ ch_messages' = AfterPending(ch_messages, ch_count)
        /\ ch_count' = ch_count + 1
        /\ ch_held' = TRUE
        /\ ch_pc' = "confirming"
     \/ /\ IF ch_held
           THEN /\ ch_messages' = Append(ch_messages, Message(ch_count + 1, "human"))
                /\ ch_count' = ch_count + 1
           ELSE UNCHANGED <<ch_messages, ch_count>>
        /\ ch_held' = ch_held
        /\ ch_pc' = "speaking_end"
  /\ UNCHANGED <<rmVars, vadVars, fsmVars, devVars>>

\* AwaitingConfirmationHandler.process: ctx.conversation_history = history
HistConfirm ==
  /\ ch_pc = "confirming"
  /\ ch_count + 3 <= MaxMessages
  /\ \E confirmed \in BOOLEAN :
       /\ ch_messages' = AfterConfirm(ch_messages, ch_count, confirmed)
       /\ ch_count' = ch_count + (IF confirmed THEN 3 ELSE 2)
  /\ ch_held' = TRUE
  /\ ch_pc' = "speaking_end"
  /\ UNCHANGED <<rmVars, vadVars, fsmVars, devVars>>

\* SpeakingHandler.process: interrupted, or spoken to the end
HistSpeak ==
  /\ ch_pc \in {"speaking", "speaking_end"}
  /\ \/ /\ ch_messages' = (IF ch_held THEN MarkInterrupted(ch_messages) ELSE ch_messages)
        /\ ch_pc' = "listening"
     \/ /\ ch_pc = "speaking"          \* the reply ends with a question mark
        /\ ch_pc' = "listening"
        /\ UNCHANGED ch_messages
     \/ /\ ch_pc' = "entering"
        /\ UNCHANGED ch_messages
  /\ UNCHANGED <<ch_held, ch_count>>
  /\ UNCHANGED <<rmVars, vadVars, fsmVars, devVars>>

\* WaitingForWakeWordHandler.enter: ctx.reset_conversation()
HistReset ==
  /\ ch_pc = "entering"
  /\ ch_held' = FALSE /\ ch_messages' = <<>> /\ ch_count' = 0
  /\ ch_pc' = "waiting"
  /\ UNCHANGED <<rmVars, vadVars, fsmVars, devVars>>

NextHistory ==
  \/ HistWake \/ HistListen \/ HistRunVoiceAgent \/ HistConfirm \/ HistSpeak
  \/ HistReset

SpecHistory == InitDevices /\ [][NextHistory]_allVars

\* C24: whenever the context holds a conversation history, after any update
\* by Processing, Speaking or AwaitingConfirmation over any number of turns,
\* its length is at most the cap (20 messages) and the retained messages are
\* the most recent ones in their original order.
C24_HistoryCapped ==
  ch_held =>
    /\ Len(ch_messages) <= MAX_HISTORY_MESSAGES
    /\ \A i \in 1..Len(ch_messages) :
         ch_messages[i].n = ch_count - Len(ch_messages) + i

\* the step is the reset of WaitingForWakeWordHandler.enter
EnteringWaiting == handler = WAITING_FOR_WAKE_WORD /\ pc = "enter"

\* C25 as stated: apart from the reset on entering WaitingForWakeWord, the
\* conversation history and the thread id are changed only while the machine
\* is in Processing or Speaking; Listening, AwaitingConfirmation and
\* DeliveringReminder leave both unchanged.
C25_OnlyProcessingOrSpeaking ==
  [][(conversation_history' # conversation_history \/ thread_id' # thread_id) =>
       (EnteringWaiting \/ handler \in {PROCESSING, SPEAKING})]_allVars

\* C25: apart from the reset on entering WaitingForWakeWord, which alone sets
\* them back to none, the conversation history is changed only in Processing,
\* Speaking or AwaitingConfirmation (which stores the list confirm_tool_call
\* returns) and the thread id only in Processing; Listening and
\* DeliveringReminder leave both unchanged.
C25_ChangedOnlyByOwners ==
  [][/\ conversation_history' # conversation_history =>
          (EnteringWaiting \/ handler \in {PROCESSING, SPEAKING, AWAITING_CONFIRMATION})
     /\ thread_id' # thread_id => (EnteringWaiting \/ handler = PROCESSING)
     /\ (conversation_history # None /\ conversation_history' = None) => EnteringWaiting
     /\ (thread_id # None /\ thread_id' = None) => EnteringWaiting]_allVars

\* AwaitingConfirmation has stored the list confirm_tool_call returned
C25_Witness ==
  /\ handler = AWAITING_CONFIRMATION /\ pc = "exit"
  /\ confirmation.state = "resolved"
  /\ conversation_history = HistoryList /\ thread_id # None

\* C26: the scheduler thread performs a due-check only on startup, when its
\* computed wake time (the earliest pending due time, rounded down to the
\* minute) has arrived, or after a schedule-changed notification; between
\* these it is blocked rather than polling, and a notification makes it
\* recompute its wake target before it next blocks.
C26_ChecksOnlyWhenWoken ==
  [][(spc \in {"startup", "loop"} /\ spc' = "query") =>
       \/ spc = "startup"
       \/ AlreadyDue(reminders, now)
       \/ wake_event]_allVars

\* C27: each resolution of a pending delivery updates the persisted reminder
\* and clears the pending delivery: schedule_retry sets due = now + the retry
\* interval and leaves the status pending, snooze_reminder sets the status
\* pending and due = now + the minutes given, mark_delivered sets the status
\* cleared; a retried or snoozed reminder is not surfaced again before its
\* new due time.
C27_ResolutionUpdatesStore ==
  [][/\ (handler = DELIVERING_REMINDER /\ hpc = "store" /\ hpc' = "clear") =>
          /\ \A r \in Reminders \ {d_delivery} : reminders'[r] = reminders[r]
          /\ d_op.op = "retry" =>
               /\ reminders'[d_delivery].due = now + RetryTicks
               /\ reminders'[d_delivery].status = "pending"
          /\ d_op.op = "snooze" =>
               /\ reminders'[d_delivery].due = now + d_op.minutes
               /\ reminders'[d_delivery].status = "pending"
          /\ d_op.op = "mark_delivered" =>
               reminders'[d_delivery].status = "cleared"
     /\ (handler = DELIVERING_REMINDER /\ pc = "process" /\ hpc = "clear" /\ pc' # pc) =>
          pending_delivery' = NoDelivery
     /\ (pending_delivery = NoDelivery /\ pending_delivery' # NoDelivery) =>
          /\ reminders[pending_delivery'].status = "pending"
          /\ reminders[pending_delivery'].due <= now]_allVars

\* a snoozed reminder has been written back with its new due time
C27_Witness ==
  /\ handler = DELIVERING_REMINDER /\ hpc = "clear" /\ pc = "process"
  /\ d_op.op = "snooze"
  /\ reminders[d_delivery] = [status |-> "pending", due |-> now + d_op.minutes]
  /\ now > 0

RmCreate ==
  /\ ~rm_hung /\ rm_next <= MaxReminders
  /\ \E m \in Messages, dt \in DueTimes :
       rm_rows' = [rm_rows EXCEPT ![rm_next] =
                     [exists |-> TRUE, message |-> m, due_datetime |-> isoformat(dt),
                      status |-> "pending"]]
  /\ rm_next' = rm_next + 1
  /\ rm_last' = RmCall("create", FALSE, <<"m">>, <<"d">>, <<>>, 1)
  /\ UNCHANGED rm_hung
  /\ UNCHANGED <<chVars, vadVars, fsmVars, devVars>>

\* update_reminder; with nothing to update it calls get_reminder while it
\* holds the lock get_reminder takes, and never returns
RmUpdate ==
  /\ ~rm_hung
  /\ \E id \in ReminderIds, message \in Optional(Messages), due \in Optional(DueTimes),
        status \in Optional(Statuses) :
       IF message = <<>> /\ due = <<>> /\ status = <<>>
       THEN /\ rm_hung' = TRUE
            /\ rm_last' = RmCall("update", rm_rows[id].exists, message, due, status, 0)
            /\ UNCHANGED rm_rows
       ELSE /\ rm_rows' = UpdateRow(rm_rows, id, message, due, status)
            /\ rm_last' = RmCall("update", rm_rows[id].exists, message, due, status,
                                 UpdateEmits(due))
            /\ UNCHANGED rm_hung
  /\ UNCHANGED rm_next
  /\ UNCHANGED <<chVars, vadVars, fsmVars, devVars>>

\* clear_reminder: update_reminder(reminder_id, status=CLEARED)
RmClear ==
  /\ ~rm_hung
  /\ \E id \in ReminderIds :
       /\ rm_rows' = UpdateRow(rm_rows, id, <<>>, <<>>, <<"cleared">>)
       /\ rm_last' = RmCall("clear", rm_rows[id].exists, <<>>, <<>>, <<"cleared">>,
                            UpdateEmits(<<>>))
  /\ UNCHANGED <<rm_next, rm_hung>>
  /\ UNCHANGED <<chVars, vadVars, fsmVars, devVars>>

\* snooze_reminder: update_reminder(reminder_id, due_datetime=..., status=PENDING)
RmSnooze ==
  /\ ~rm_hung
  /\ \E id \in ReminderIds, dt \in DueTimes :
       /\ rm_rows' = UpdateRow(rm_rows, id, <<>>, <<dt>>, <<"pending">>)
       /\ rm_last' = RmCall("snooze", rm_rows[id].exists, <<>>, <<dt>>, <<"pending">>,
                            UpdateEmits(<<dt>>))
  /\ UNCHANGED <<rm_next, rm_hung>>
  /\ UNCHANGED <<chVars, vadVars, fsmVars, devVars>>

RmDelete ==
  /\ ~rm_hung
  /\ \E id \in ReminderIds :
       /\ rm_rows' = [rm_rows EXCEPT ![id] = NoRow]
       /\ rm_last' = RmCall("delete", rm_rows[id].exists, <<>>, <<>>, <<>>,
                            DeleteEmits(rm_rows[id].exists))
  /\ UNCHANGED <<rm_next, rm_hung>>
  /\ UNCHANGED <<chVars, vadVars, fsmVars, devVars>>

NextReminders == RmCreate \/ RmUpdate \/ RmClear \/ RmSnooze \/ RmDelete

SpecReminders == InitDevices /\ [][NextReminders]_allVars

\* a is earlier than b
Before(a, b) ==
  a.second < b.second \/ (a.second = b.second /\ a.microsecond < b.microsecond)

\* the due times of the pending reminders, as get_reminder returns them
PendingDueTimes(rows) == {fromisoformat(t) : t \in PendingDues(rows)}

\* C28: after any sequence of create, update, clear, snooze and delete,
\* get_next_pending_time() returns the minimum due time over the pending
\* reminders, ignoring cleared and delivered ones, and None when no reminder
\* is pending.
C28_NextPendingIsMinimum ==
  LET dues == PendingDueTimes(rm_rows)
  IN get_next_pending_time(rm_rows) =
       {d \in dues : \A e \in dues : d = e \/ Before(d, e)}

\* a cleared reminder is due first and a pending one, with a fraction of a
\* second in its text, after it
C28_Witness ==
  /\ \E i, j \in ReminderIds :
       /\ rm_rows[i].exists /\ rm_rows[i].status = "cleared"
       /\ rm_rows[i].due_datetime = isoformat(Datetime(2, 0))
       /\ rm_rows[j].exists /\ rm_rows[j].status = "pending"
       /\ rm_rows[j].due_datetime = isoformat(Datetime(2, 5))
  /\ get_next_pending_time(rm_rows) = {Datetime(2, 5)}

\* C30: ReminderScheduleChanged is emitted exactly once by each
\* create_reminder, each delete_reminder of an existing reminder, each
\* snooze_reminder and each update_reminder that sets a due time, and not by
\* an update that changes only the message.
C30_EmittedOncePerChange ==
  /\ rm_last.op = "create" => rm_last.emitted = 1
  /\ (rm_last.op = "delete" /\ rm_last.existed) => rm_last.emitted = 1
  /\ rm_last.op = "snooze" => rm_last.emitted = 1
  /\ (rm_last.op = "update" /\ rm_last.due_set) => rm_last.emitted = 1
  /\ (rm_last.op = "update" /\ rm_last.message_set /\ ~rm_last.due_set
      /\ ~rm_last.status_set) => rm_last.emitted = 0

\* an update gave an existing reminder a new message and nothing else
C30_Witness ==
  /\ rm_last.op = "update" /\ rm_last.existed /\ rm_last.message_set
  /\ ~rm_last.due_set /\ ~rm_last.status_set /\ rm_last.emitted = 0
  /\ \E i \in ReminderIds : rm_rows[i].exists /\ rm_rows[i].message = "m2"

\* the abort phrases: the stop phrases other than "stop"
AbortPhrases == {"nevermind", "never mind", "cancel", "forget it"}

\* C29: in Listening a transcription that normalises to 'stop' or 'stop the
\* timer' ends the turn in WaitingForWakeWord after the attempt to stop a
\* ringing alarm, in a conversation or not; the abort phrases end the turn
\* only when a conversation is in progress, and otherwise the transcription
\* goes to Processing, the history being left as it is.
C29_StopAndAbortPhrases ==
  [][(handler = LISTENING /\ pc = "process" /\ pc' = "exit" /\ heard_text' # <<>>) =>
       LET t == heard_text'[1]
       IN /\ Normalized(t) \in {"stop", "stop the timer"} =>
               /\ result' = StateResult(WAITING_FOR_WAKE_WORD, NoData)
               /\ (current_ringing # None /\ timers[current_ringing].state = "RINGING") =>
                    (current_ringing' = None /\ tm_last'.op = "stop_any_ringing")
          /\ (Normalized(t) \in AbortPhrases /\ is_in_conversation(conversation_history)) =>
               result' = StateResult(WAITING_FOR_WAKE_WORD, NoData)
          /\ (Normalized(t) \in AbortPhrases /\ ~is_in_conversation(conversation_history)) =>
               result' = StateResult(PROCESSING, TranscriptionData(t))
          /\ UNCHANGED <<conversation_history, thread_id>>]_allVars

\* "Stop the timer" was heard in a conversation and the turn ends
C29_Witness ==
  /\ handler = LISTENING /\ pc = "exit"
  /\ heard_text = <<"Stop the timer ">>
  /\ is_in_conversation(conversation_history)
  /\ result = StateResult(WAITING_FOR_WAKE_WORD, NoData)

(***************************************************************************)
(* The mixer's mute flag: mute, unmute and muted_context against playback  *)
(***************************************************************************)
NextMute ==
  \/ MuteSetFlag \/ MuteStopCurrent \/ MuteStopLoop \/ Unmute
  \/ ContextEnter \/ ContextRaise \/ ContextFinally
  \/ QueueAudio \/ StopCurrent \/ StartLoop \/ StopLoop
  \/ CallbackBegin \/ CallbackStep \/ CallbackReturn

SpecMute == InitDevices /\ [][NextMute]_allVars

\* C31: the mute state is a boolean, not a counter: the mixer is muted iff
\* the last of mute() and unmute() was mute(), however many mute() calls came
\* before, and muted_context() leaves it unmuted when it is left, after the
\* body or after an exception of the body.
C31_MuteIsBoolean ==
  [][/\ mute_last' # "none" => (muted' <=> mute_last' = "mute")
     /\ (ctx_pc # "out" /\ ctx_pc' = "out") => ~muted']_allVars

\* mute(), mute(), unmute() have been called, and muted_context() has been
\* left by an exception
C31_Witness ==
  /\ mute_last = "unmute" /\ mute_depth = 1 /\ ~muted
  /\ ctx_pc = "out" /\ mute_pc = "idle"

(***************************************************************************)
(* Properties of the timer manager's mute, alarm thread and current-       *)
(* ringing name                                                            *)
(***************************************************************************)

\* an alarm thread is alive, is not told to stop and does not skip playback
Audible == sound_loops # {} /\ ~stop_sound /\ ~tm_muted

\* C32: mute() and unmute() leave every timer and every countdown as they
\* are; the callback of a timer's own countdown makes it RINGING also while
\* muted; and when unmute() returns with no expiry callback in progress, a
\* timer that became RINGING while muted and is still RINGING has its alarm
\* audible
C32_MuteOnlySilences ==
  [][/\ tm_last'.op \in {"mute", "unmute"} => (timers' = timers /\ threads' = threads)
     /\ \A t \in ThreadIds :
          (/\ threads[t] = "fired" /\ threads'[t] # "fired" /\ tm_muted
           /\ timers[thread_name[t]].state = "PENDING"
           /\ timers[thread_name[t]].thread = t)
          => timers'[thread_name[t]].state = "RINGING"
     /\ tm_last'.op = "unmute" =>
          \A n \in rang_muted' :
             (/\ timers'[n].state = "RINGING"
              /\ \A t \in ThreadIds : threads'[t] \notin {"fired", "ring"})
             => Audible']_allVars

(***************************************************************************)
(* Properties of speak_interruptibly                                       *)
(***************************************************************************)

\* C33: when playback was interrupted by the wake phrase, the audio that
\* speak_interruptibly returns is the monitor's ring buffer at the trigger
\* followed by every frame up to the end-pointing of the capture (speech
\* seen, then silence longer than silence_duration): the stop() of the
\* speaker does not end the capture before that.
C33_CaptureUntilEndOfSpeech ==
  (spk_pc = "stopped" /\ lpc = "returned") =>
    /\ ret.kind = "audio"
    /\ SubSeq(ret.samples, 1, Len(trigger_ring)) = trigger_ring
    /\ ret.how = "endpoint"
    /\ speech_at # NoTime /\ cap_time - speech_at > SilenceFrames

\* C34: at most one alarm thread is in its playback loop at any time (a thread
\* that has been told to stop and has not yet ended is not counted), also when
\* a second timer expires while another is ringing and when set_timer
\* replaces a ringing timer
C34_OneAlarmLoop ==
  ~stop_sound => Cardinality(sound_loops) <= 1

\* C35: the current-ringing name is set iff some timer is RINGING, and it
\* names a timer that is RINGING; so stop_timer() with no name, called while
\* a timer is RINGING, stops a ringing timer
C35_CurrentRingingIsRinging ==
  /\ (current_ringing # None) <=> (\E n \in Names : timers[n].state = "RINGING")
  /\ current_ringing # None => timers[current_ringing].state = "RINGING"

\* C36: an alarm thread is in its playback loop (alive and not told to stop)
\* only while some timer is RINGING, under every interleaving of the expiry
\* callback with stop_timer, stop_any_ringing, set_timer and cleanup
C36_AlarmOnlyWhileRinging ==
  (sound_loops # {} /\ ~stop_sound) => \E n \in Names : timers[n].state = "RINGING"

(***************************************************************************)
(* Properties of the mixer's stop request                                  *)
(***************************************************************************)

\* C37: when the output callback serves a stop request (made by stop_current,
\* by an interrupted queue_audio_blocking or by mute), every clip it discards
\* from the queue was queued before the request was made: a clip queued after
\* the request had returned stays queued to be played
C37_StopDiscardsOnlyEarlier ==
  [][(stop_requested /\ ~stop_requested') =>
       \A i \in 1..Len(output_queue) :
          output_queue[i].src = "clip" => output_queue[i].id <= stop_mark]_allVars

(***************************************************************************)
(* Properties of the hand-over of a reminder to DeliveringReminder         *)
(***************************************************************************)

\* C38: whenever DeliveringReminder starts on a delivery, the reminder is in
\* the store with status pending and a due time not later than now, also
\* when a tool call changed it after it was made the pending delivery
C38_DeliveredReminderStillDue ==
  (pc = "process" /\ handler = DELIVERING_REMINDER /\ hpc = "begin"
   /\ d_delivery # NoDelivery) =>
    /\ reminders[d_delivery].status = "pending"
    /\ reminders[d_delivery].due <= now

(***************************************************************************)
(* Termination of the ReminderManager operations                           *)
(***************************************************************************)

\* C39: every ReminderManager operation terminates and releases the store
\* lock, for all arguments: no call, update_reminder with no message, no due
\* time and no status included, is left waiting for the lock
C39_OperationsTerminate == ~rm_hung

(***************************************************************************)
(* VADProcessor (wake_word/wake_word_listener.py)                          *)
(***************************************************************************)
\* sum(len(chunk) for chunk in self._buffer)
RECURSIVE total_samples(_)
total_samples(buffer) ==
  IF buffer = <<>> THEN 0 ELSE Len(Head(buffer)) + total_samples(Tail(buffer))

\* np.concatenate(self._buffer)
RECURSIVE concatenate(_)
concatenate(buffer) ==
  IF buffer = <<>> THEN <<>> ELSE Head(buffer) \o concatenate(Tail(buffer))

\* the model's answer for a window, standing for the window it was given
speech_prob(vad_chunk) == [window |-> vad_chunk]

\* variant: the rest is cut one window further on
remaining_SkipWindow(vad_audio) == SubSeq(vad_audio, 2 * VAD_CHUNK + 1, Len(vad_audio))

\* vad_audio[self._chunk_size:]
remaining(vad_audio) == SubSeq(vad_audio, VAD_CHUNK + 1, Len(vad_audio))

\* the loop of process: while a whole window is buffered, score the first
\* window of the concatenated buffer and keep the rest as the only array
RECURSIVE process(_, _)
process(buffer, probabilities) ==
  IF total_samples(buffer) >= VAD_CHUNK
  THEN LET vad_audio == concatenate(buffer)
           vad_chunk == SubSeq(vad_audio, 1, VAD_CHUNK)
           rest == remaining(vad_audio)
       IN process(IF Len(rest) > 0 THEN <<rest>> ELSE <<>>,
                  Append(probabilities, speech_prob(vad_chunk)))
  ELSE [buffer |-> buffer, probabilities |-> probabilities]

\* add_audio with the next n samples of the stream
AddAudio ==
  /\ vp_added < MaxSamples /\ Len(vp_buffer) < MaxChunks
  /\ \E n \in 0..Min(MaxChunkLen, MaxSamples - vp_added) :
       /\ vp_buffer' = Append(vp_buffer, [i \in 1..n |-> vp_added + i])
       /\ vp_added' = vp_added + n
  /\ vp_last' = "add_audio" /\ vp_ret' = <<>>
  /\ UNCHANGED vp_scored
  /\ UNCHANGED <<chVars, rmVars, fsmVars, devVars>>

Process ==
  /\ LET r == process(vp_buffer, <<>>)
     IN /\ vp_buffer' = r.buffer
        /\ vp_ret' = r.probabilities
        /\ vp_scored' = vp_scored \o r.probabilities
  /\ vp_last' = "process"
  /\ UNCHANGED vp_added
  /\ UNCHANGED <<chVars, rmVars, fsmVars, devVars>>

NextVAD == AddAudio \/ Process

SpecVAD == InitDevices /\ [][NextVAD]_allVars

\* the i-th window of the stream
Window(i) == [k \in 1..VAD_CHUNK |-> (i - 1) * VAD_CHUNK + k]

\* C40: after add_audio calls totalling N samples interleaved with process
\* calls, process has returned floor(N / chunk_size) probabilities in all,
\* one per consecutive window in arrival order, fewer than chunk_size
\* samples remain buffered and they are the samples after the last window;
\* process returns an empty list when fewer than chunk_size samples are
\* buffered
C40_OneProbabilityPerWindow ==
  [][vp_last' = "process" =>
       /\ Len(vp_scored') = vp_added' \div VAD_CHUNK
       /\ \A i \in 1..Len(vp_scored') : vp_scored'[i] = speech_prob(Window(i))
       /\ total_samples(vp_buffer') < VAD_CHUNK
       /\ concatenate(vp_buffer') =
            [k \in 1..(vp_added' % VAD_CHUNK) |->
               (vp_added' \div VAD_CHUNK) * VAD_CHUNK + k]
       /\ total_samples(vp_buffer) < VAD_CHUNK =>
            (vp_ret' = <<>> /\ vp_buffer' = vp_buffer)]_allVars

\* a second call of process returned two windows gathered from three arrays
\* and kept one sample
C40_Witness ==
  /\ vp_last = "process" /\ Len(vp_ret) = 2 /\ Len(vp_scored) = 3
  /\ vp_added = MaxSamples /\ Len(vp_buffer) = 1
====
